---- MODULE Spec2Model ----
(***************************************************************************)
(* Model of the job queue engine of ERT                                    *)
(* (src/src/ert/_c_wrappers/job_queue/queue.py, class JobQueue).           *)
(*                                                                         *)
(* The queue owns job_list, a list of job nodes.  The queue thread runs    *)
(* execute_queue (or its websocket variant); every node that has been      *)
(* started runs a monitor thread of its own, so node steps interleave with *)
(* the steps of the queue thread.  JobQueueNode and QueueDiffer are not    *)
(* part of the sources at hand: the node's life cycle and the differ are   *)
(* modelled from the specification (sections 4.2 and 4.4).                 *)
(*                                                                         *)
(* The module also models the batching dispatcher of the evaluator         *)
(* (src/src/ert/ensemble_evaluator/dispatch.py, class BatchingDispatcher)  *)
(* and the evaluator tracker                                               *)
(* (src/ert/ensemble_evaluator/tracker/evaluator_tracker.py), and the      *)
(* snapshot with its partial (src/src/ert/ensemble_evaluator/snapshot.py). *)
(* The rotator of mounted file systems (src/res/enkf/enkf_fs_manager.py)   *)
(* and the job runner (src/src/_ert_job_runner/runner.py) come last.       *)
(* Each has variables and specifications of its own; the variables of the  *)
(* other components stay at their initial values.                          *)
(***************************************************************************)
EXTENDS Integers, Sequences, FiniteSets, TLC

(* ---- bounds of the model ---- *)
MaxJobs == 2
MaxSubmitBound == 2
MaxRunningBound == 1
MaxRuntime == 3
MaxMinRealizations == 2
MaxDrops == 1
MaxRegistrations == 2
MaxEvents == 2
MaxBatchBound == 20
MaxTimeout == 1
MaxIter == 2
MaxReals == 2
MaxTrackEvents == 2
MaxSnapshotReals == 1
MaxCloudEvents == 2
MaxCapacity == 2
MaxRunnerJobs == 2
MaxUpdates == 2

VARIABLES
    job_list,        \* JobQueue.job_list: sequence of node records
    stopped,         \* JobQueue._stopped
    max_submit,      \* JobQueue.max_submit (job_queue_get_max_submit)
    driver_max_running, \* driver.get_max_running()
    pc,              \* position of the queue thread
    stop_received,   \* set of queue indices on which stop_jobs has called stop()
    min_realizations, \* minimum_required_realizations bound to the evaluator
    long_stopped,    \* queue indices stopped by the last stop_long_running_jobs call
    differ_state,    \* QueueDiffer._state: last recorded status per queue index
    last_changes,    \* changes: the result of changes_after_transition(), a local of the loop
    conn,            \* websocket connection to the evaluator: "none", "open", "closed"
    events,          \* deque of events still to send in _publish_changes
    reconnected,     \* a ConnectionClosed was caught and nothing was published since
    observer,        \* status per node as reconstructed from delivered events
    observer_ref,    \* status per node as reconstructed from all published events
    drops,           \* number of connection drops so far
    dispatcher,      \* the BatchingDispatcher: a record of its attributes, or "none"
                     \* while no dispatcher is constructed
    tracker,         \* the EvaluatorTracker with its drainer thread and the consumer
                     \* of track(): a record, or "none" while no tracker is constructed
    snap,            \* a Snapshot and the PartialSnapshot that is being filled for it:
                     \* a record, or "none" while no snapshot is built
    rotator,         \* the FileSystemRotator of an EnkfFsManager with the cases on
                     \* disk: a record, or "none" while no manager is constructed
    runner           \* a JobRunner and the generator of its run(): a record, or
                     \* "none" while no runner is constructed

vars == << job_list, stopped, max_submit, driver_max_running, pc, stop_received,
           min_realizations, long_stopped, differ_state, last_changes,
           conn, events, reconnected, observer, observer_ref, drops,
           dispatcher, tracker, snap, rotator, runner >>

wsvars == << conn, events, reconnected, observer, observer_ref, drops >>
differvars == << differ_state, last_changes >>
cfgvars == << max_submit, driver_max_running, min_realizations >>
queuevars == << job_list, stopped, pc, stop_received, long_stopped,
                cfgvars, differvars, wsvars >>
othervars == << rotator, runner >>
evalvars == << dispatcher, tracker, snap, othervars >>

\* the attributes of the dispatcher
LOOKUP_MAP == dispatcher.LOOKUP_MAP            \* _LOOKUP_MAP: event type -> list of (function, batching)
buffer == dispatcher.buffer                    \* _buffer: list of (function, event)
running == dispatcher.running                  \* _running
task == dispatcher.task                        \* state of _task: "pending", "finished", "failed", "cancelled"
dpc == dispatcher.dpc                          \* position of the coroutine _job
callback_ran == dispatcher.callback_ran        \* _done_callback has been called
max_batch == dispatcher.max_batch              \* _max_batch
timeout == dispatcher.timeout                  \* _timeout
input_max_batch == dispatcher.input_max_batch  \* _input_max_batch
input_timeout == dispatcher.input_timeout      \* _input_timeout
tick_calls == dispatcher.tick_calls            \* handler calls of the tick in progress: sequence of [f, events]
last_tick == dispatcher.last_tick              \* the last completed _work: its wall time, whether it found events
failure_calls == dispatcher.failure_calls      \* functions _done_callback has called with the empty list
last_handle == dispatcher.last_handle          \* outcome of the last handle_event call
next_event == dispatcher.next_event            \* number of handle_event calls so far

\* the attributes of the tracker, of its drainer thread and of track()
work_queue_log == tracker.work_queue_log       \* every item put on _work_queue, in order
get_count == tracker.get_count                 \* number of items track() has taken from the queue
unfinished_tasks == tracker.unfinished_tasks   \* puts not yet matched by task_done()
iter_snapshot == tracker.iter_snapshot         \* _iter_snapshot: iteration -> status per realization
outputs == tracker.outputs                     \* what track() has yielded, in order
tracker_pc == tracker.tracker_pc               \* position of the generator track()
drainer == tracker.drainer                     \* position of the drainer thread (_drain_monitor)
model_finished == tracker.model_finished       \* model.isFinished()
drainer_last == tracker.drainer_last           \* ensemble status of the last event the drainer queued,
                                               \* and whether it called monitor.signal_done() for it
ensemble_size == tracker.ensemble_size         \* number of realizations of the ensemble
cleared == tracker.cleared                     \* number of items _clear_work_queue has taken from the queue
terminator == tracker.terminator               \* position of the caller of request_termination

\* the snapshot and its partial
data == snap.data                              \* Snapshot._data: a mapping of mappings
partial == snap.partial                        \* the PartialSnapshot: _ensemble_state, _job_states
received == snap.received                      \* the events from_cloudevent was called with, in order
last_call == snap.last_call                    \* the last operation: its name, whether it raised

(* ---- vocabulary ---- *)
\* ThreadStatus values used by queue.py
ThreadStatus == {"READY", "RUNNING", "STOPPING", "DONE", "FAILED"}

\* JobStatusType values (keys of _queue_state_to_event_type_map) the node passes through
JobStatusType == {"JOB_QUEUE_WAITING", "JOB_QUEUE_SUBMITTED", "JOB_QUEUE_PENDING",
                  "JOB_QUEUE_RUNNING", "JOB_QUEUE_DONE", "JOB_QUEUE_EXIT",
                  "JOB_QUEUE_SUCCESS", "JOB_QUEUE_FAILED", "JOB_QUEUE_IS_KILLED"}

Nodes == 1..Len(job_list)

\* a freshly constructed JobQueueNode
NewNode == [status |-> "JOB_QUEUE_WAITING", thread_status |-> "READY",
            submit_attempt |-> 0, driver_submits |-> 0, max_submit |-> 0,
            runtime |-> 0, started |-> FALSE]

(* ---- JobQueue queries ---- *)
count_running ==
    Cardinality({n \in Nodes : job_list[n].thread_status = "RUNNING"})

max_running ==
    IF driver_max_running = 0 THEN Len(job_list) ELSE driver_max_running

available_capacity_offbyone ==
    ~stopped /\ count_running <= max_running

available_capacity_nostop ==
    count_running < max_running

available_capacity ==
    ~stopped /\ count_running < max_running

is_active_nostopping ==
    \E n \in Nodes : job_list[n].thread_status \in {"READY", "RUNNING"}

is_active ==
    \E n \in Nodes : job_list[n].thread_status \in {"READY", "RUNNING", "STOPPING"}

\* 0 stands for None
fetch_next_waiting ==
    IF \E n \in Nodes : job_list[n].thread_status = "READY"
    THEN CHOOSE n \in Nodes : /\ job_list[n].thread_status = "READY"
                              /\ \A m \in Nodes : job_list[m].thread_status = "READY" => n <= m
    ELSE 0

assert_complete_notactive ==
    ~is_active

assert_complete ==
    \A n \in Nodes : job_list[n].thread_status = "DONE"

\* the max_submit argument launch_jobs hands to job.run
launch_max_submit_plus ==
    max_submit + 1

launch_max_submit ==
    max_submit

(* ---- JobQueueNode operations (modelled from the specification) ---- *)
\* node.stop(): a running node is asked to stop, a waiting node is finished
node_stop(node) ==
    IF node.thread_status = "RUNNING" THEN [node EXCEPT !.thread_status = "STOPPING"]
    ELSE IF node.thread_status = "READY" THEN [node EXCEPT !.thread_status = "DONE"]
    ELSE node

\* node.run(driver, pool_sema, max_submit): start the monitor thread
node_run(node) ==
    [node EXCEPT !.thread_status = "RUNNING", !.started = TRUE, !.runtime = 0]

\* the differ records the status of every node in queue order
node_statuses ==
    [n \in Nodes |-> job_list[n].status]

(* ---- vocabulary of the dispatcher and of the tracker ---- *)
\* event types handlers are registered for: identifiers.EVTYPE_ENSEMBLE_FAILED
\* and one type of forward-model event
EventTypes == {"ENSEMBLE_FAILED", "FM_STEP_RUNNING"}

\* the functions that can be registered as handlers: two distinct ones
Handlers == {1, 2}

\* max_batch arguments of the constructor: two below 10 (a tenth of them is 0)
\* and one above
InputMaxBatches == {1, 3, MaxBatchBound}

\* wall times of a tick that processes events, in seconds: below and at the
\* threshold of done_logger
ProcessingTimes == {9, 10}

\* iterations of the run model; the model's phaseCount() is their number
Iters == 0..(MaxIter - 1)
phaseCount == MaxIter

\* realization states: state.REALIZATION_STATE_RUNNING, _FINISHED, _FAILED
RealStates == {"Running", "Finished", "Failed"}

\* ensemble states an event can carry in data[ids.STATUS] ("none": no status):
\* ENSEMBLE_STATE_STARTED, _STOPPED, _FAILED, _CANCELLED
EnsembleStates == {"none", "Starting", "Stopped", "Failed", "Cancelled"}

\* the sentinel EvaluatorTracker.DONE as an item of the work queue
DONE == [type |-> "done", iter |-> 0, reals |-> << >>]

\* a dispatcher right after __init__(loop, timeout, max_batch): the task is
\* scheduled, not started
DispatcherConstructed(timeout_arg, max_batch_arg) ==
    [LOOKUP_MAP |-> [t \in EventTypes |-> << >>],
     buffer |-> << >>,
     running |-> TRUE,
     task |-> "pending",
     dpc |-> "loop",
     callback_ran |-> FALSE,
     max_batch |-> max_batch_arg,
     timeout |-> timeout_arg,
     input_max_batch |-> max_batch_arg,
     input_timeout |-> timeout_arg,
     tick_calls |-> << >>,
     last_tick |-> [time |-> -1, processed |-> FALSE],
     failure_calls |-> << >>,
     last_handle |-> [type |-> "none", raised |-> FALSE, direct |-> << >>],
     next_event |-> 0]

\* a tracker right after __init__, for an ensemble of size realizations: empty
\* work queue, no snapshot stored, the drainer thread started
TrackerConstructed(size) ==
    [work_queue_log |-> << >>,
     get_count |-> 0,
     unfinished_tasks |-> 0,
     iter_snapshot |-> << >>,
     outputs |-> << >>,
     tracker_pc |-> "get",
     drainer |-> "loop",
     model_finished |-> FALSE,
     drainer_last |-> [status |-> "none", signalled |-> FALSE],
     ensemble_size |-> size,
     cleared |-> 0,
     terminator |-> "idle"]

\* no file system manager and no job runner is constructed
OthersIdle ==
    /\ rotator = "none"
    /\ runner = "none"

\* no dispatcher, tracker or snapshot is constructed while the queue is modelled
EvaluatorIdle ==
    /\ dispatcher = "none"
    /\ tracker = "none"
    /\ snap = "none"
    /\ OthersIdle

(* ---- initial state: a constructed queue without jobs ---- *)
Init ==
    /\ job_list = << >>
    /\ stopped = FALSE
    /\ max_submit \in 0..MaxSubmitBound
    /\ driver_max_running \in 0..MaxRunningBound
    /\ pc = "setup"
    /\ stop_received = {}
    /\ min_realizations = 0
    /\ long_stopped = {}
    /\ differ_state = << >>
    /\ last_changes = << >>
    /\ conn = "none"
    /\ events = << >>
    /\ reconnected = FALSE
    /\ observer = << >>
    /\ observer_ref = << >>
    /\ drops = 0
    /\ EvaluatorIdle

(* ---- operations of the queue ---- *)
\* add_job: append the node and register its status with the differ
add_job ==
    /\ pc = "setup"
    /\ Len(job_list) < MaxJobs
    /\ job_list' = Append(job_list, NewNode)
    /\ differ_state' = Append(differ_state, NewNode.status)
    /\ UNCHANGED << stopped, cfgvars, evalvars, pc, stop_received, long_stopped,
                    last_changes, wsvars >>

\* kill_all_jobs: may be called from any thread at any time
kill_all_jobs ==
    /\ ~stopped
    /\ stopped' = TRUE
    /\ UNCHANGED << job_list, cfgvars, evalvars, pc, stop_received, long_stopped,
                    differvars, wsvars >>

\* execute_queue is called
execute_queue_start ==
    /\ pc = "setup"
    /\ pc' = "loop_check"
    /\ UNCHANGED << job_list, stopped, cfgvars, evalvars, stop_received, long_stopped,
                    differvars, wsvars >>

\* while self.is_active() and not self.stopped
execute_queue_loop ==
    /\ pc = "loop_check"
    /\ pc' = IF is_active /\ ~stopped THEN "launch_check" ELSE "if_stopped"
    /\ UNCHANGED << job_list, stopped, cfgvars, evalvars, stop_received, long_stopped,
                    differvars, wsvars >>

\* launch_jobs: while self.available_capacity()
\* (launch_jobs is called by execute_queue, by the websocket loop and by the
\*  bus loop; the position tells which)
launch_jobs_check ==
    /\ pc \in {"launch_check", "ws_launch_check", "bus_launch_check"}
    /\ pc' = IF available_capacity
             THEN CASE pc = "launch_check" -> "launch_run"
                    [] pc = "ws_launch_check" -> "ws_launch_run"
                    [] pc = "bus_launch_check" -> "bus_launch_run"
             ELSE CASE pc = "launch_check" -> "sleep"
                    [] pc = "ws_launch_check" -> "ws_sleep"
                    [] pc = "bus_launch_check" -> "bus_sleep"
    /\ UNCHANGED << job_list, stopped, cfgvars, evalvars, stop_received, long_stopped,
                    differvars, wsvars >>

\* launch_jobs: job = fetch_next_waiting(); break if None; job.run(...)
launch_jobs_run ==
    /\ pc \in {"launch_run", "ws_launch_run", "bus_launch_run"}
    /\ IF fetch_next_waiting = 0
       THEN /\ pc' = CASE pc = "launch_run" -> "sleep"
                      [] pc = "ws_launch_run" -> "ws_sleep"
                      [] pc = "bus_launch_run" -> "bus_sleep"
            /\ UNCHANGED job_list
       ELSE /\ job_list' = [job_list EXCEPT ![fetch_next_waiting] =
                               [node_run(@) EXCEPT !.max_submit = launch_max_submit]]
            /\ pc' = CASE pc = "launch_run" -> "launch_check"
                      [] pc = "ws_launch_run" -> "ws_launch_check"
                      [] pc = "bus_launch_run" -> "bus_launch_check"
    /\ UNCHANGED << stopped, cfgvars, evalvars, stop_received, long_stopped,
                    differvars, wsvars >>

\* time.sleep(1), then the evaluators (none are configured)
execute_queue_sleep ==
    /\ pc = "sleep"
    /\ pc' = "loop_check"
    /\ UNCHANGED << job_list, stopped, cfgvars, evalvars, stop_received, long_stopped,
                    differvars, wsvars >>

\* if self.stopped: self.stop_jobs()
execute_queue_if_stopped ==
    /\ pc = "if_stopped"
    /\ pc' = IF stopped THEN "stop_jobs" ELSE "assert_complete"
    /\ UNCHANGED << job_list, stopped, cfgvars, evalvars, stop_received, long_stopped,
                    differvars, wsvars >>

\* stop_jobs: for job in self.job_list: job.stop()
\* (stop() touches only its own node and node steps touch only their own node,
\*  so the loop over the nodes is taken in one step)
stop_jobs ==
    /\ pc = "stop_jobs"
    /\ job_list' = [n \in Nodes |-> node_stop(job_list[n])]
    /\ stop_received' = Nodes
    /\ pc' = "stop_wait"
    /\ UNCHANGED << stopped, cfgvars, evalvars, long_stopped, differvars, wsvars >>

\* stop_jobs: while self.is_active(): time.sleep(1)
stop_jobs_wait ==
    /\ pc = "stop_wait"
    /\ ~is_active
    /\ pc' = "assert_complete"
    /\ UNCHANGED << job_list, stopped, cfgvars, evalvars, stop_received, long_stopped,
                    differvars, wsvars >>

\* self.assert_complete(): raise AssertionError unless every node is DONE
execute_queue_assert ==
    /\ pc = "assert_complete"
    /\ pc' = IF assert_complete THEN "returned" ELSE "raised"
    /\ UNCHANGED << job_list, stopped, cfgvars, evalvars, stop_received, long_stopped,
                    differvars, wsvars >>

(* ---- steps of a node's monitor thread (modelled from the specification) ---- *)
\* entry to SUBMITTED: count the attempt; beyond max_submit the node fails
node_submit(n) ==
    /\ job_list[n].thread_status = "RUNNING"
    /\ job_list[n].status = "JOB_QUEUE_WAITING"
    /\ LET node == job_list[n]
           attempt == node.submit_attempt + 1
       IN job_list' = [job_list EXCEPT ![n] =
              IF attempt > node.max_submit
              THEN [node EXCEPT !.submit_attempt = attempt,
                                !.status = "JOB_QUEUE_FAILED",
                                !.thread_status = "DONE"]
              ELSE [node EXCEPT !.submit_attempt = attempt,
                                !.driver_submits = @ + 1,
                                !.status = "JOB_QUEUE_SUBMITTED"]]
    /\ UNCHANGED << stopped, cfgvars, evalvars, pc, stop_received, long_stopped,
                    differvars, wsvars >>

\* the driver reports progress: SUBMITTED -> PENDING -> RUNNING -> DONE | EXIT
node_poll(n) ==
    /\ job_list[n].thread_status = "RUNNING"
    /\ \E s \in JobStatusType :
          /\ \/ job_list[n].status = "JOB_QUEUE_SUBMITTED" /\ s = "JOB_QUEUE_PENDING"
             \/ job_list[n].status = "JOB_QUEUE_PENDING" /\ s = "JOB_QUEUE_RUNNING"
             \/ job_list[n].status = "JOB_QUEUE_RUNNING"
                    /\ s \in {"JOB_QUEUE_DONE", "JOB_QUEUE_EXIT"}
          /\ job_list' = [job_list EXCEPT ![n].status = s]
    /\ UNCHANGED << stopped, cfgvars, evalvars, pc, stop_received, long_stopped,
                    differvars, wsvars >>

\* DONE: the done callback accepts the results (SUCCESS) or rejects them (retry path)
node_done(n) ==
    /\ job_list[n].thread_status = "RUNNING"
    /\ job_list[n].status = "JOB_QUEUE_DONE"
    /\ \E ok \in BOOLEAN :
          job_list' = [job_list EXCEPT ![n] =
              IF ok THEN [@ EXCEPT !.status = "JOB_QUEUE_SUCCESS", !.thread_status = "DONE"]
              ELSE [@ EXCEPT !.status = "JOB_QUEUE_EXIT"]]
    /\ UNCHANGED << stopped, cfgvars, evalvars, pc, stop_received, long_stopped,
                    differvars, wsvars >>

\* EXIT: with attempts remaining the node waits for resubmission, else it fails
node_exit(n) ==
    /\ job_list[n].thread_status = "RUNNING"
    /\ job_list[n].status = "JOB_QUEUE_EXIT"
    /\ job_list' = [job_list EXCEPT ![n] =
          IF @.submit_attempt < @.max_submit
          THEN [@ EXCEPT !.status = "JOB_QUEUE_WAITING", !.thread_status = "READY"]
          ELSE [@ EXCEPT !.status = "JOB_QUEUE_FAILED", !.thread_status = "DONE"]]
    /\ UNCHANGED << stopped, cfgvars, evalvars, pc, stop_received, long_stopped,
                    differvars, wsvars >>

\* a node that was asked to stop kills its job and settles at IS_KILLED
node_kill(n) ==
    /\ job_list[n].thread_status = "STOPPING"
    /\ job_list' = [job_list EXCEPT ![n] =
          [@ EXCEPT !.status = "JOB_QUEUE_IS_KILLED", !.thread_status = "DONE"]]
    /\ UNCHANGED << stopped, cfgvars, evalvars, pc, stop_received, long_stopped,
                    differvars, wsvars >>

\* a callback raises in the monitor thread of a node: the thread ends, and the
\* node is neither working nor DONE
node_thread_failure(n) ==
    /\ job_list[n].thread_status = "RUNNING"
    /\ job_list[n].status \in {"JOB_QUEUE_DONE", "JOB_QUEUE_EXIT"}
    /\ job_list' = [job_list EXCEPT ![n].thread_status = "FAILED"]
    /\ UNCHANGED << stopped, cfgvars, evalvars, pc, stop_received, long_stopped,
                    differvars, wsvars >>

NodeStep ==
    \E n \in Nodes :
        \/ node_submit(n)
        \/ node_poll(n)
        \/ node_done(n)
        \/ node_exit(n)
        \/ node_kill(n)
        \/ node_thread_failure(n)

QueueStep ==
    \/ execute_queue_start
    \/ execute_queue_loop
    \/ launch_jobs_check
    \/ launch_jobs_run
    \/ execute_queue_sleep
    \/ execute_queue_if_stopped
    \/ stop_jobs
    \/ stop_jobs_wait
    \/ execute_queue_assert

Next ==
    \/ add_job
    \/ kill_all_jobs
    \/ QueueStep
    \/ NodeStep

Spec == Init /\ [][Next]_vars

\* a queue whose driver limits the number of running jobs (max_running > 0)
InitFair ==
    /\ Init
    /\ driver_max_running > 0

\* the queue thread keeps running, and a node that was asked to stop does stop
FairSpec ==
    /\ InitFair /\ [][Next]_vars
    /\ WF_vars(QueueStep)
    /\ \A n \in 1..MaxJobs : WF_vars(n \in Nodes /\ node_kill(n))

(* ---- the long-runner policy: execute_queue with the evaluator of start_queue ---- *)
\* LONG_RUNNING_FACTOR = 1.25 = 5 / 4
LongRunningFactorNum == 5
LongRunningFactorDen == 4

\* completed_jobs of stop_long_running_jobs
completed_jobs ==
    {n \in Nodes : job_list[n].status = "JOB_QUEUE_DONE"}

RECURSIVE sum_runtime(_)
sum_runtime(S) ==
    IF S = {} THEN 0
    ELSE LET n == CHOOSE m \in S : TRUE
         IN job_list[n].runtime + sum_runtime(S \ {n})

exceeds_average_or_equal(runtime, total, finished) ==
    runtime * LongRunningFactorDen * finished >= LongRunningFactorNum * total

\* job.runtime > LONG_RUNNING_FACTOR * average_runtime, where
\* average_runtime = total / finished
exceeds_average(runtime, total, finished) ==
    runtime * LongRunningFactorDen * finished > LongRunningFactorNum * total

\* the nodes on which stop_long_running_jobs(minimum) calls stop()
long_running_jobs(minimum) ==
    LET finished_realizations == Cardinality(completed_jobs)
    IN IF finished_realizations = 0 THEN {}
       ELSE IF finished_realizations < minimum THEN {}
       ELSE {n \in Nodes : exceeds_average(job_list[n].runtime,
                                           sum_runtime(completed_jobs),
                                           finished_realizations)}

\* start_queue binds minimum_required_realizations > 0 to the evaluator;
\* the queue is one that submits every job once
InitLong ==
    /\ job_list = << >>
    /\ stopped = FALSE
    /\ max_submit = 1
    /\ driver_max_running \in 0..MaxRunningBound
    /\ min_realizations \in 1..MaxMinRealizations
    /\ pc = "setup"
    /\ stop_received = {}
    /\ long_stopped = {}
    /\ differ_state = << >>
    /\ last_changes = << >>
    /\ conn = "none"
    /\ events = << >>
    /\ reconnected = FALSE
    /\ observer = << >>
    /\ observer_ref = << >>
    /\ drops = 0
    /\ EvaluatorIdle

\* time.sleep(1): the clock of every node with a live monitor thread advances
execute_queue_sleep_clock ==
    /\ pc = "sleep"
    /\ \A n \in Nodes : job_list[n].thread_status \in {"RUNNING", "STOPPING"}
                            => job_list[n].runtime < MaxRuntime
    /\ job_list' = [n \in Nodes |->
          IF job_list[n].thread_status \in {"RUNNING", "STOPPING"}
          THEN [job_list[n] EXCEPT !.runtime = @ + 1]
          ELSE job_list[n]]
    /\ pc' = "evaluators"
    /\ UNCHANGED << stopped, cfgvars, evalvars, stop_received, long_stopped, differvars, wsvars >>

\* for func in evaluators: func(), i.e. stop_long_running_jobs(minimum)
stop_long_running_jobs ==
    /\ pc = "evaluators"
    /\ long_stopped' = long_running_jobs(min_realizations)
    /\ job_list' = [n \in Nodes |->
          IF n \in long_running_jobs(min_realizations)
          THEN node_stop(job_list[n]) ELSE job_list[n]]
    /\ pc' = "loop_check"
    /\ UNCHANGED << stopped, cfgvars, evalvars, stop_received, differvars, wsvars >>

NextLong ==
    \/ add_job
    \/ kill_all_jobs
    \/ execute_queue_start
    \/ execute_queue_loop
    \/ launch_jobs_check
    \/ launch_jobs_run
    \/ execute_queue_sleep_clock
    \/ stop_long_running_jobs
    \/ execute_queue_if_stopped
    \/ stop_jobs
    \/ stop_jobs_wait
    \/ execute_queue_assert
    \/ NodeStep

SpecLong == InitLong /\ [][NextLong]_vars

(* ---- QueueDiffer (modelled from the specification, section 4.2) ---- *)
\* diff(old, new): the changed entries only, each with its new status
diff_states(old, new) ==
    [n \in {i \in DOMAIN new : old[i] # new[i]} |-> new[n]]

\* snapshot(): the full view, queue index -> status
differ_snapshot ==
    differ_state

(* ---- publishing over the websocket ---- *)
changes_after_transition_swapped ==
    diff_states(node_statuses, differ_state)

\* changes_after_transition: transition() reads the status of every node, and
\* the result is the diff of the old and the new differ state
changes_after_transition ==
    diff_states(differ_state, node_statuses)

\* _queue_state_event_type
queue_state_event_type(state) ==
    CASE state \in {"JOB_QUEUE_WAITING", "JOB_QUEUE_SUBMITTED"} -> "forward_model_step.waiting"
      [] state = "JOB_QUEUE_PENDING" -> "forward_model_step.pending"
      [] state \in {"JOB_QUEUE_RUNNING", "JOB_QUEUE_DONE", "JOB_QUEUE_EXIT"}
             -> "forward_model_step.running"
      [] state \in {"JOB_QUEUE_IS_KILLED", "JOB_QUEUE_FAILED"} -> "forward_model_step.failure"
      [] state = "JOB_QUEUE_SUCCESS" -> "forward_model_step.success"

\* _translate_change_to_cloudevent
translate_change_to_cloudevent(real_id, status) ==
    [type |-> queue_state_event_type(status), real |-> real_id,
     queue_event_type |-> status]

\* the deque of events _publish_changes builds from a change map
RECURSIVE events_from(_, _)
events_from(changes, i) ==
    IF i > Len(job_list) THEN << >>
    ELSE (IF i \in DOMAIN changes
          THEN << translate_change_to_cloudevent(i, changes[i]) >>
          ELSE << >>) \o events_from(changes, i + 1)

publish_events(changes) ==
    events_from(changes, 1)

\* an observer applies a status message
observer_apply(obs, event) ==
    [n \in DOMAIN obs \cup {event.real} |->
        IF n = event.real THEN event.queue_event_type ELSE obs[n]]

RECURSIVE observer_apply_all(_, _)
observer_apply_all(obs, evs) ==
    IF evs = << >> THEN obs
    ELSE observer_apply_all(observer_apply(obs, Head(evs)), Tail(evs))

\* execute_queue_via_websockets is called: connect for the initial publish
execute_queue_via_websockets_start ==
    /\ pc = "setup"
    /\ conn' = "open"
    /\ events' = publish_events(differ_snapshot)
    /\ observer_ref' = observer_apply_all(observer_ref, publish_events(differ_snapshot))
    /\ pc' = "ws_initial_publish"
    /\ UNCHANGED << job_list, stopped, cfgvars, evalvars, stop_received, long_stopped,
                    differvars, reconnected, observer, drops >>

\* the evaluator side of the connection goes away
connection_drop ==
    /\ conn = "open"
    /\ drops < MaxDrops
    /\ conn' = "closed"
    /\ drops' = drops + 1
    /\ UNCHANGED << job_list, stopped, cfgvars, evalvars, pc, stop_received, long_stopped,
                    differvars, events, reconnected, observer, observer_ref >>

\* _publish_changes: send events[0], then popleft
publish_send ==
    /\ pc \in {"ws_initial_publish", "ws_publish", "ws_final_publish"}
    /\ events # << >>
    /\ conn = "open"
    /\ observer' = observer_apply(observer, Head(events))
    /\ events' = Tail(events)
    /\ UNCHANGED << job_list, stopped, cfgvars, evalvars, pc, stop_received, long_stopped,
                    differvars, conn, reconnected, observer_ref, drops >>

\* _publish_changes: send raises ConnectionClosed; the deque is a local of the
\* call and is gone.  In the loop the exception is caught and the loop
\* continues with a new connection; around the initial publish it is handled
\* as an unexpected exception; the final publish lets it through.
publish_connection_closed ==
    /\ pc \in {"ws_initial_publish", "ws_publish", "ws_final_publish"}
    /\ events # << >>
    /\ conn = "closed"
    /\ events' = << >>
    /\ conn' = "none"
    /\ pc' = CASE pc = "ws_initial_publish" -> "ws_stop_jobs"
               [] pc = "ws_publish" -> "ws_connect"
               [] pc = "ws_final_publish" -> "raised"
    /\ reconnected' = (pc = "ws_publish")
    /\ last_changes' = << >>
    /\ UNCHANGED << job_list, stopped, cfgvars, evalvars, stop_received, long_stopped,
                    differ_state, observer, observer_ref, drops >>

\* _publish_changes returns: every event has been sent
publish_done ==
    /\ pc \in {"ws_initial_publish", "ws_publish", "ws_final_publish"}
    /\ events = << >>
    /\ pc' = CASE pc = "ws_initial_publish" -> "ws_connect"
               [] pc = "ws_publish" -> "ws_check_stopped"
               [] pc = "ws_final_publish" -> "returned"
    /\ conn' = IF pc = "ws_publish" THEN conn ELSE "none"
    /\ UNCHANGED << job_list, stopped, cfgvars, evalvars, stop_received, long_stopped,
                    differvars, events, reconnected, observer, observer_ref, drops >>

\* async for ee_connection in connect(...): the next connection is made
ws_connect ==
    /\ pc = "ws_connect"
    /\ conn' = "open"
    /\ pc' = "ws_launch_check"
    /\ UNCHANGED << job_list, stopped, cfgvars, evalvars, stop_received, long_stopped,
                    differvars, events, reconnected, observer, observer_ref, drops >>

\* await asyncio.sleep(1); the evaluators (none are configured)
ws_sleep ==
    /\ pc = "ws_sleep"
    /\ pc' = "ws_transition"
    /\ UNCHANGED << job_list, stopped, cfgvars, evalvars, stop_received, long_stopped,
                    differvars, wsvars >>

\* changes = self.changes_after_transition(); publish them if there are any
ws_changes_after_transition ==
    /\ pc = "ws_transition"
    /\ last_changes' = changes_after_transition
    /\ differ_state' = node_statuses
    /\ events' = publish_events(changes_after_transition)
    /\ observer_ref' = observer_apply_all(observer_ref,
                                          publish_events(changes_after_transition))
    /\ pc' = IF DOMAIN changes_after_transition # {} THEN "ws_publish"
             ELSE "ws_check_stopped"
    /\ reconnected' = (reconnected /\ DOMAIN changes_after_transition = {})
    /\ UNCHANGED << job_list, stopped, cfgvars, evalvars, stop_received, long_stopped,
                    conn, observer, drops >>

\* if self.stopped: raise CancelledError; if not self.is_active(): break;
\* otherwise the loop goes on to its next connection
ws_check_stopped ==
    /\ pc = "ws_check_stopped"
    /\ pc' = IF stopped THEN "ws_stop_jobs"
             ELSE IF ~is_active THEN "ws_assert"
             ELSE "ws_connect"
    /\ conn' = "none"
    /\ last_changes' = << >>
    /\ UNCHANGED << job_list, stopped, cfgvars, evalvars, stop_received, long_stopped,
                    differ_state, events, reconnected, observer, observer_ref, drops >>

\* stop_jobs_async: for job in self.job_list: job.stop()
stop_jobs_async ==
    /\ pc \in {"ws_stop_jobs", "bus_stop_jobs"}
    /\ job_list' = [n \in Nodes |-> node_stop(job_list[n])]
    /\ stop_received' = Nodes
    /\ pc' = "async_stop_wait"
    /\ UNCHANGED << stopped, cfgvars, evalvars, long_stopped, differvars, wsvars >>

\* stop_jobs_async: while self.is_active(): sleep; then the exception is re-raised
stop_jobs_async_nowait ==
    /\ pc = "async_stop_wait"
    /\ pc' = "raised"
    /\ UNCHANGED << job_list, stopped, cfgvars, evalvars, stop_received, long_stopped,
                    differvars, wsvars >>
stop_jobs_async_wait ==
    /\ pc = "async_stop_wait"
    /\ ~is_active
    /\ pc' = "raised"
    /\ UNCHANGED << job_list, stopped, cfgvars, evalvars, stop_received, long_stopped,
                    differvars, wsvars >>

\* self.assert_complete(); self._differ.transition(self.job_list); connect for
\* the final publish of the snapshot
ws_assert_complete ==
    /\ pc = "ws_assert"
    /\ IF assert_complete
       THEN /\ differ_state' = node_statuses
            /\ conn' = "open"
            /\ events' = publish_events(node_statuses)
            /\ observer_ref' = observer_apply_all(observer_ref,
                                                  publish_events(node_statuses))
            /\ reconnected' = FALSE
            /\ pc' = "ws_final_publish"
       ELSE /\ pc' = "raised"
            /\ UNCHANGED << differ_state, conn, events, reconnected, observer_ref >>
    /\ UNCHANGED << job_list, stopped, cfgvars, evalvars, stop_received, long_stopped,
                    last_changes, observer, drops >>

WsStep ==
    \/ execute_queue_via_websockets_start
    \/ publish_send
    \/ publish_connection_closed
    \/ publish_done
    \/ ws_connect
    \/ launch_jobs_check
    \/ launch_jobs_run
    \/ ws_sleep
    \/ ws_changes_after_transition
    \/ ws_check_stopped
    \/ stop_jobs_async
    \/ stop_jobs_async_wait
    \/ ws_assert_complete

NextWs ==
    \/ add_job
    \/ kill_all_jobs
    \/ connection_drop
    \/ WsStep
    \/ NodeStep

\* a queue that submits every job once, on a driver without a cap
InitWs ==
    /\ Init
    /\ max_submit = 1
    /\ driver_max_running = 0

SpecWs == InitWs /\ [][NextWs]_vars

(* ---- publishing over the bus: execute_queue_comms_via_bus ---- *)
\* execute_queue_comms_via_bus is called: the snapshot is put on the bus
\* (_queue_changes puts every event on output_bus, which never refuses one;
\*  observer_ref is the state a reader of the bus reconstructs)
execute_queue_comms_via_bus_start ==
    /\ pc = "setup"
    /\ observer_ref' = observer_apply_all(observer_ref, publish_events(differ_snapshot))
    /\ pc' = "bus_launch_check"
    /\ UNCHANGED << job_list, stopped, cfgvars, evalvars, stop_received, long_stopped,
                    differvars, conn, events, reconnected, observer, drops >>

\* await asyncio.sleep(1); the evaluators (none are configured)
bus_sleep ==
    /\ pc = "bus_sleep"
    /\ pc' = "bus_transition"
    /\ UNCHANGED << job_list, stopped, cfgvars, evalvars, stop_received, long_stopped,
                    differvars, wsvars >>

\* changes = self.changes_after_transition(); put them on the bus
bus_changes_after_transition ==
    /\ pc = "bus_transition"
    /\ last_changes' = changes_after_transition
    /\ differ_state' = node_statuses
    /\ observer_ref' = observer_apply_all(observer_ref,
                                          publish_events(changes_after_transition))
    /\ pc' = "bus_check_stopped"
    /\ UNCHANGED << job_list, stopped, cfgvars, evalvars, stop_received, long_stopped,
                    conn, events, reconnected, observer, drops >>

\* if self.stopped: raise CancelledError; if not self.is_active(): break
bus_check_stopped ==
    /\ pc = "bus_check_stopped"
    /\ pc' = IF stopped THEN "bus_stop_jobs"
             ELSE IF ~is_active THEN "bus_assert"
             ELSE "bus_launch_check"
    /\ last_changes' = << >>
    /\ UNCHANGED << job_list, stopped, cfgvars, evalvars, stop_received, long_stopped,
                    differ_state, wsvars >>

\* self.assert_complete(); self._differ.transition(self.job_list); the final
\* snapshot is put on the bus
bus_assert_complete ==
    /\ pc = "bus_assert"
    /\ IF assert_complete
       THEN /\ differ_state' = node_statuses
            /\ observer_ref' = observer_apply_all(observer_ref,
                                                  publish_events(node_statuses))
            /\ pc' = "returned"
       ELSE /\ pc' = "raised"
            /\ UNCHANGED << differ_state, observer_ref >>
    /\ UNCHANGED << job_list, stopped, cfgvars, evalvars, stop_received, long_stopped,
                    last_changes, conn, events, reconnected, observer, drops >>

BusStep ==
    \/ execute_queue_comms_via_bus_start
    \/ launch_jobs_check
    \/ launch_jobs_run
    \/ bus_sleep
    \/ bus_changes_after_transition
    \/ bus_check_stopped
    \/ stop_jobs_async
    \/ stop_jobs_async_wait
    \/ bus_assert_complete

NextBus ==
    \/ add_job
    \/ kill_all_jobs
    \/ BusStep
    \/ NodeStep

SpecBus == InitWs /\ [][NextBus]_vars

(* ---- the queue run either over the websocket or over the bus ---- *)
\* a queue that submits every job once, on a driver that caps the number of
\* running jobs
InitStop ==
    /\ Init
    /\ max_submit = 1
    /\ driver_max_running \in 1..MaxRunningBound

\* execute_queue_via_websockets on a connection that stays up, or
\* execute_queue_comms_via_bus
NextStop ==
    \/ add_job
    \/ kill_all_jobs
    \/ execute_queue_via_websockets_start
    \/ publish_send
    \/ publish_done
    \/ ws_connect
    \/ ws_sleep
    \/ ws_changes_after_transition
    \/ ws_check_stopped
    \/ ws_assert_complete
    \/ BusStep
    \/ NodeStep

SpecStop == InitStop /\ [][NextStop]_vars

(* ======================= properties of execute_queue ======================= *)

\* C1: with a driver max_running greater than 0, the number of nodes whose
\* thread status is RUNNING never exceeds max_running.
C1_BoundedConcurrency ==
    driver_max_running > 0 =>
        Cardinality({n \in Nodes : job_list[n].thread_status = "RUNNING"})
            <= driver_max_running

\* the cap is reached while another node is still waiting to be started
C1_Witness ==
    /\ driver_max_running = 1
    /\ \E n \in Nodes : job_list[n].thread_status = "RUNNING"
    /\ \E n \in Nodes : job_list[n].thread_status = "READY"
    /\ pc = "sleep"

\* C2: a node is handed to the driver at most max_submit times, and a node whose
\* submit counter has passed max_submit is FAILED without having been submitted again.
C2_SubmitCap ==
    \A n \in Nodes :
        /\ job_list[n].driver_submits <= max_submit
        /\ job_list[n].submit_attempt > max_submit =>
               /\ job_list[n].status = "JOB_QUEUE_FAILED"
               /\ job_list[n].thread_status = "DONE"

\* a node has used all its submissions and has failed
C2_Witness ==
    \E n \in Nodes :
        /\ max_submit >= 2
        /\ job_list[n].driver_submits = max_submit
        /\ job_list[n].status = "JOB_QUEUE_FAILED"

\* C3: once stopped is set there is no capacity, and a launch_jobs loop that
\* tests the capacity with stopped set does not go on to run a node.
C3_NoLaunchAfterStop ==
    [][stopped =>
          /\ ~(~stopped /\ count_running < max_running)
          /\ pc = "launch_check" => pc' # "launch_run"
          /\ pc # "launch_run" =>
                \A n \in Nodes : job_list'[n].thread_status = "RUNNING"
                                     => job_list[n].thread_status = "RUNNING"]_vars

\* stopped is set while launch_jobs is about to test the capacity, a node is
\* READY and nothing is running
C3_Witness ==
    /\ stopped
    /\ pc = "launch_check"
    /\ \E n \in Nodes : job_list[n].thread_status = "READY"
    /\ \A n \in Nodes : job_list[n].thread_status # "RUNNING"

C5_StopProtocol ==
    /\ [][/\ (pc = "if_stopped" /\ stopped /\ pc' # pc) => pc' = "stop_jobs"
          /\ (pc = "stop_jobs" /\ pc' # pc) =>
                (pc' = "stop_wait" /\ stop_received' = 1..Len(job_list))
          /\ (pc = "stop_wait" /\ pc' # pc) =>
                /\ pc' = "assert_complete"
                /\ \A n \in Nodes :
                      job_list[n].thread_status \notin {"READY", "RUNNING", "STOPPING"}
          /\ (pc' = "assert_complete" /\ pc # pc' /\ stopped) => pc = "stop_wait"]_vars
    /\ (stopped /\ pc \in {"loop_check", "launch_check", "launch_run", "sleep"})
          ~> (pc \in {"returned", "raised"})

\* the queue was stopped with a node running, every node got stop() and
\* execute_queue has come to its end
C5_Witness ==
    /\ stopped
    /\ pc \in {"returned", "raised"}
    /\ stop_received = Nodes
    /\ \E n \in Nodes : job_list[n].status = "JOB_QUEUE_IS_KILLED"

(* =================== properties of stop_long_running_jobs =================== *)

\* C6: stop_long_running_jobs(min) calls stop() on a node only if the number of
\* completed nodes is at least min (and at least one) and the node's runtime is
\* strictly greater than 1.25 times the average runtime of the completed nodes.
C6_LongRunnerPredicate ==
    [][(pc = "evaluators" /\ pc' = "loop_check") =>
          \A n \in Nodes :
              (n \in long_stopped' \/ job_list'[n] # job_list[n]) =>
                  LET done == {m \in Nodes : job_list[m].status = "JOB_QUEUE_DONE"}
                      finished == Cardinality(done)
                  IN /\ finished >= 1
                     /\ finished >= min_realizations
                     /\ 4 * finished * job_list[n].runtime > 5 * sum_runtime(done)]_vars

\* the evaluator has just stopped a running node
C6_Witness ==
    /\ pc = "loop_check"
    /\ \E n \in long_stopped : job_list[n].thread_status = "STOPPING"
    /\ \E n \in Nodes : job_list[n].status = "JOB_QUEUE_DONE" /\ n \notin long_stopped

\* C7: stop_long_running_jobs calls stop() only on nodes whose status is RUNNING.
C7_OnlyRunningStopped ==
    [][(pc = "evaluators" /\ pc' = "loop_check") =>
          \A n \in long_stopped' : job_list[n].status = "JOB_QUEUE_RUNNING"]_vars

(* ================== properties of the published status changes ================== *)

\* C8: changes_after_transition() returns exactly the nodes whose status differs
\* from the one the differ recorded at the previous transition, each with its
\* new status; the result is empty iff no node changed, and the differ records
\* the new statuses, so that a second call without a change returns the empty map.
C8_ChangesAfterTransition ==
    [][(pc = "bus_transition" /\ pc' = "bus_check_stopped") =>
          LET changed == {n \in Nodes : job_list[n].status # differ_state[n]}
          IN /\ DOMAIN last_changes' = changed
             /\ \A n \in changed : /\ last_changes'[n] = job_list[n].status
                                   /\ last_changes'[n] # differ_state[n]
             /\ (last_changes' = << >>) <=>
                    (\A n \in Nodes : job_list[n].status = differ_state[n])
             /\ \A n \in Nodes : differ_state'[n] = job_list[n].status]_vars

\* a call has returned the change of one node out of two
C8_Witness ==
    /\ pc = "bus_check_stopped"
    /\ Len(job_list) = 2
    /\ Cardinality(DOMAIN last_changes) = 1

\* C9: the first events published after a ConnectionClosed was caught in the
\* loop are the full snapshot of the differ.
C9_RepublishAfterReconnect ==
    [][(reconnected /\ events = << >> /\ events' # << >>) =>
          events' = publish_events(differ_state')]_vars

\* C10: whenever a tick of the loop has finished publishing, and after the final
\* publish, the observer on the connection has reconstructed the same status
\* for every node as the observer that receives every published event.
C10_ObserverEquivalence ==
    pc \in {"ws_check_stopped", "returned"} => observer = observer_ref

\* C38: when the loop over the websocket or the bus finds stopped set, the
\* changes of the tick have been published (nothing is left to send and the
\* observer has every changed status) and the call goes on to stop the jobs;
\* from there it neither publishes nor records anything and reaches neither
\* assert_complete nor the final publish; it re-raises only when stop() has
\* been called on every node and no node is READY, RUNNING or STOPPING.
C38_StoppedPath ==
    /\ [][(pc \in {"ws_check_stopped", "bus_check_stopped"} /\ stopped /\ pc' # pc) =>
             /\ pc' = (IF pc = "ws_check_stopped" THEN "ws_stop_jobs"
                                                  ELSE "bus_stop_jobs")
             /\ events = << >>
             /\ \A n \in DOMAIN last_changes :
                    (IF pc = "ws_check_stopped" THEN observer
                                                ELSE observer_ref)[n] = last_changes[n]]_vars
    /\ [][(pc \in {"ws_stop_jobs", "bus_stop_jobs", "async_stop_wait"}) =>
             (/\ pc' \in {pc, "async_stop_wait", "raised"}
              /\ Len(events') = 0
              /\ differ_state' = differ_state
              /\ observer_ref' = observer_ref)]_vars
    /\ [][(pc = "async_stop_wait" /\ pc' = "raised") =>
             /\ stop_received = Nodes
             /\ \A n \in Nodes :
                    job_list[n].thread_status \notin {"READY", "RUNNING", "STOPPING"}]_vars
    /\ [][pc = "raised" => pc' = "raised"]_vars

\* the call over the websocket has re-raised after stopping two nodes, one of
\* which had been started
C38_Witness ==
    /\ pc = "raised"
    /\ stopped
    /\ conn = "none"
    /\ Len(job_list) = 2
    /\ stop_received = Nodes
    /\ \E n \in Nodes : job_list[n].started
    /\ \E n \in Nodes : ~job_list[n].started
    /\ DOMAIN observer = Nodes

(***************************************************************************)
(* The batching dispatcher (dispatch.py).  _job runs as an asyncio task:   *)
(* it is suspended only in asyncio.sleep and while it awaits the gathered  *)
(* handlers, and it can be cancelled only there.  register_event_handler,  *)
(* handle_event and join are called by other coroutines of the same loop.  *)
(***************************************************************************)
Min(a, b) == IF a <= b THEN a ELSE b

\* self._task.done(): the task has finished, failed or been cancelled
done_unless_cancelled(t) == t \in {"finished", "failed"}
done(t) == t \in {"finished", "failed", "cancelled"}

\* register_event_handler: append (function, batching) to the list of every type
register(map, event_types, function, batching) ==
    [t \in EventTypes |-> IF t \in event_types
                          THEN Append(map[t], << function, batching >>)
                          ELSE map[t]]

\* the loop of handle_event over self._LOOKUP_MAP[event["type"]], from entry i
\* on: a batching entry raises InvalidStateError when the task is done and
\* appends (function, event) to the buffer otherwise; any other entry calls
\* the function directly
RECURSIVE handle_from(_, _, _, _, _)
handle_from(regs, i, event, buf, direct) ==
    IF i > Len(regs)
    THEN [buffer |-> buf, direct |-> direct, raised |-> FALSE]
    ELSE IF regs[i][2]
         THEN IF done(task)
              THEN [buffer |-> buf, direct |-> direct, raised |-> TRUE]
              ELSE handle_from(regs, i + 1, event,
                               Append(buf, << regs[i][1], event >>), direct)
         ELSE handle_from(regs, i + 1, event, buf, Append(direct, regs[i][1]))

\* self._buffer[: self._max_batch]
batch_one_more(buf, mb) == SubSeq(buf, 1, Min(mb + 1, Len(buf)))
batch_of(buf, mb) == SubSeq(buf, 1, Min(mb, Len(buf)))

\* self._buffer[self._max_batch :]
rest_of_keep(buf, mb) == buf
rest_of(buf, mb) == SubSeq(buf, mb + 1, Len(buf))

\* position of function f in the ordered map, 0 when f is not a key
RECURSIVE key_index(_, _, _)
key_index(map, f, i) ==
    IF i > Len(map) THEN 0
    ELSE IF map[i].f = f THEN i ELSE key_index(map, f, i + 1)

\* function_to_events_map: the OrderedDict built by the loop over the batch,
\* as the sequence of its items [f, events] in insertion order
RECURSIVE function_to_events_map(_, _, _)
function_to_events_map(batch, i, map) ==
    IF i > Len(batch) THEN map
    ELSE LET f == batch[i][1]
             event == batch[i][2]
             k == key_index(map, f, 1)
         IN  function_to_events_map(batch, i + 1,
                 IF k = 0
                 THEN Append(map, [f |-> f, events |-> << event >>])
                 ELSE [map EXCEPT ![k].events = Append(@, event)])

\* done_logger: the new (max_batch, timeout) for a measured processing time
done_logger_compounding(processing_time) ==
    IF processing_time >= 10
    THEN << max_batch \div 10, 10 * timeout >>
    ELSE << input_max_batch, input_timeout >>
done_logger(processing_time) ==
    IF processing_time >= 10
    THEN << input_max_batch \div 10, 10 * input_timeout >>
    ELSE << input_max_batch, input_timeout >>

\* the functions _done_callback calls with the empty list: one per entry
\* registered for ENSEMBLE_FAILED, batching or not
failure_handlers_batching(map) ==
    LET regs == SelectSeq(map["ENSEMBLE_FAILED"], LAMBDA r : r[2])
    IN  [i \in 1..Len(regs) |-> regs[i][1]]
failure_handlers(map) ==
    [i \in 1..Len(map["ENSEMBLE_FAILED"]) |-> map["ENSEMBLE_FAILED"][i][1]]

\* a constructed queue without jobs that is not executed
QueueIdle ==
    /\ job_list = << >>
    /\ stopped = FALSE
    /\ max_submit = 1
    /\ driver_max_running = 0
    /\ pc = "setup"
    /\ stop_received = {}
    /\ min_realizations = 0
    /\ long_stopped = {}
    /\ differ_state = << >>
    /\ last_changes = << >>
    /\ conn = "none"
    /\ events = << >>
    /\ reconnected = FALSE
    /\ observer = << >>
    /\ observer_ref = << >>
    /\ drops = 0

\* __init__ with a timeout and a max_batch
InitDispatch ==
    /\ QueueIdle
    /\ OthersIdle
    /\ \E max_batch_arg \in InputMaxBatches :
           dispatcher = DispatcherConstructed(MaxTimeout, max_batch_arg)
    /\ tracker = "none"
    /\ snap = "none"

register_event_handler ==
    \E event_types \in (SUBSET EventTypes) \ {{}}, function \in Handlers,
       batching \in BOOLEAN :
        /\ Len(LOOKUP_MAP["ENSEMBLE_FAILED"]) + Len(LOOKUP_MAP["FM_STEP_RUNNING"])
               + Cardinality(event_types) <= MaxRegistrations
        /\ dispatcher' = [dispatcher EXCEPT
               !.LOOKUP_MAP = register(LOOKUP_MAP, event_types, function, batching)]
        /\ UNCHANGED << tracker, snap, othervars, queuevars >>

handle_event ==
    \E type \in EventTypes :
        /\ next_event < MaxEvents
        /\ LET event == [type |-> type, id |-> next_event + 1]
               r == handle_from(LOOKUP_MAP[type], 1, event, buffer, << >>)
           IN  dispatcher' = [dispatcher EXCEPT
                   !.buffer = r.buffer,
                   !.last_handle = [type |-> type, raised |-> r.raised,
                                    direct |-> r.direct],
                   !.next_event = next_event + 1]
        /\ UNCHANGED << tracker, snap, othervars, queuevars >>

\* join: clear _running (the caller then awaits the task)
join ==
    /\ running
    /\ dispatcher' = [dispatcher EXCEPT !.running = FALSE]
    /\ UNCHANGED << tracker, snap, othervars, queuevars >>

\* _job: the test of "while self._running"
job_loop ==
    /\ task = "pending"
    /\ dpc = "loop"
    /\ dispatcher' = [dispatcher EXCEPT
           !.dpc = IF running THEN "sleep" ELSE "final"]
    /\ UNCHANGED << tracker, snap, othervars, queuevars >>

\* _job: asyncio.sleep(self._timeout) returns
job_sleep ==
    /\ task = "pending"
    /\ dpc = "sleep"
    /\ dispatcher' = [dispatcher EXCEPT !.dpc = "work"]
    /\ UNCHANGED << tracker, snap, othervars, queuevars >>

\* _work up to "await events_handling": return on an empty buffer; otherwise
\* cut the batch off the buffer, group it by function and call every function
\* of the map with its events.  After the loop ("final") an empty buffer ends
\* the task.
work ==
    /\ task = "pending"
    /\ dpc \in {"work", "final"}
    /\ dispatcher' =
           IF Len(buffer) = 0
           THEN [dispatcher EXCEPT
                    !.last_tick = [time |-> 0, processed |-> FALSE],
                    !.dpc = IF dpc = "work" THEN "loop" ELSE "exited",
                    !.task = IF dpc = "work" THEN task ELSE "finished"]
           ELSE [dispatcher EXCEPT
                    !.buffer = rest_of(buffer, max_batch),
                    !.tick_calls =
                        function_to_events_map(batch_of(buffer, max_batch), 1, << >>),
                    !.dpc = IF dpc = "work" THEN "await" ELSE "final_await"]
    /\ UNCHANGED << tracker, snap, othervars, queuevars >>

\* the gathered handlers are done after processing_time seconds: done_logger
\* sets max_batch and timeout, then _work returns or, when a handler has
\* raised, the exception ends the task
work_done ==
    \E processing_time \in ProcessingTimes, handler_raised \in BOOLEAN :
        /\ task = "pending"
        /\ dpc \in {"await", "final_await"}
        /\ dispatcher' = [dispatcher EXCEPT
               !.max_batch = done_logger(processing_time)[1],
               !.timeout = done_logger(processing_time)[2],
               !.last_tick = [time |-> processing_time, processed |-> TRUE],
               !.tick_calls = << >>,
               !.task = IF handler_raised THEN "failed"
                        ELSE IF dpc = "await" THEN task ELSE "finished",
               !.dpc = IF ~handler_raised /\ dpc = "await" THEN "loop" ELSE "exited"]
        /\ UNCHANGED << tracker, snap, othervars, queuevars >>

\* the task is cancelled while it is suspended: CancelledError is raised in
\* _job at the sleep or at the await of the handlers (whose done callback,
\* done_logger, still runs) and nothing of _job catches it
cancel ==
    \E processing_time \in ProcessingTimes :
        /\ task = "pending"
        /\ dpc \in {"sleep", "await", "final_await"}
        /\ dispatcher' =
               IF dpc = "sleep"
               THEN [dispatcher EXCEPT !.task = "cancelled", !.dpc = "exited"]
               ELSE [dispatcher EXCEPT
                        !.task = "cancelled",
                        !.dpc = "exited",
                        !.max_batch = done_logger(processing_time)[1],
                        !.timeout = done_logger(processing_time)[2],
                        !.last_tick = [time |-> processing_time, processed |-> TRUE],
                        !.tick_calls = << >>]
        /\ UNCHANGED << tracker, snap, othervars, queuevars >>

\* _done_callback: return when the task finished normally; after an exception
\* and after a cancellation (the except clause only logs) call every function
\* registered for ENSEMBLE_FAILED with the empty list
done_callback ==
    /\ done(task)
    /\ ~callback_ran
    /\ dispatcher' = [dispatcher EXCEPT
           !.callback_ran = TRUE,
           !.failure_calls = IF task = "finished"
                             THEN failure_calls
                             ELSE failure_calls \o failure_handlers(LOOKUP_MAP)]
    /\ UNCHANGED << tracker, snap, othervars, queuevars >>

NextDispatch ==
    \/ register_event_handler
    \/ handle_event
    \/ join
    \/ job_loop
    \/ job_sleep
    \/ work
    \/ work_done
    \/ cancel
    \/ done_callback

SpecDispatch == InitDispatch /\ [][NextDispatch]_vars

(* ---- claims about the dispatcher ---- *)
\* C11 (as stated): a handle_event call made when the task has completed
\* (finished, failed or cancelled) raises InvalidStateError and leaves the
\* buffer as it was, whatever the type of the event.
C11_HandleEventAfterDone ==
    [][(next_event' = next_event + 1 /\ task \in {"finished", "failed", "cancelled"})
           => (last_handle'.raised /\ buffer' = buffer)]_vars

\* C11 (amended): a handle_event call raises InvalidStateError exactly when the
\* task has completed (finished, failed or cancelled) and a batching handler is
\* registered for the type of the event; a call that raises leaves the buffer
\* as it was.
C11_HandleEventAfterDoneBatching ==
    [][next_event' = next_event + 1 =>
          LET regs == LOOKUP_MAP[last_handle'.type]
              batching_registered == \E i \in 1..Len(regs) : regs[i][2]
          IN  /\ last_handle'.raised <=>
                     (task \in {"finished", "failed", "cancelled"}
                          /\ batching_registered)
              /\ last_handle'.raised => buffer' = buffer]_vars

\* handle_event has raised after the task was cancelled
C11_Witness ==
    /\ task = "cancelled"
    /\ last_handle.raised
    /\ last_handle.type = "FM_STEP_RUNNING"

\* C12: a tick that finds events takes the first min(max_batch, length) entries
\* off the buffer and leaves the others in their order; every function with an
\* entry among those taken is called exactly once, with the events of its
\* entries in the order of the buffer, and no other function is called.
C12_TickBatch ==
    [][(dpc \in {"work", "final"} /\ dpc' \in {"await", "final_await"}) =>
          LET n == IF max_batch <= Len(buffer) THEN max_batch ELSE Len(buffer)
              taken == SubSeq(buffer, 1, n)
          IN  /\ n <= max_batch
              /\ buffer' = SubSeq(buffer, n + 1, Len(buffer))
              /\ \A c \in 1..Len(tick_calls') : tick_calls'[c].f \in Handlers
              /\ \A f \in Handlers :
                    LET mine == SelectSeq(taken, LAMBDA e : e[1] = f)
                        calls == SelectSeq(tick_calls', LAMBDA c : c.f = f)
                    IN  IF Len(mine) = 0
                        THEN Len(calls) = 0
                        ELSE /\ Len(calls) = 1
                             /\ Len(calls[1].events) = Len(mine)
                             /\ \A i \in 1..Len(mine) :
                                    calls[1].events[i] = mine[i][2]]_vars

\* a tick has called two functions, the first with two events, and has left
\* an entry in the buffer
C12_Witness ==
    /\ dpc = "await"
    /\ Len(tick_calls) = 2
    /\ Len(tick_calls[1].events) = 2
    /\ tick_calls[1].events[1].id < tick_calls[1].events[2].id
    /\ Len(buffer) = 1
    /\ max_batch = 3

\* C13: when the task has been cancelled, no event is left in the buffer.
C13_CancelDrains ==
    task = "cancelled" => Len(buffer) = 0

C15_CancelSilent ==
    task \in {"cancelled", "finished"} => Len(failure_calls) = 0

\* C16 (as stated): after a tick of 10 s or more (max_batch, timeout) is the
\* throttled pair, after any faster tick it is the original pair, and it is
\* one of the two in every state.
C16_Throttle ==
    LET original == << input_max_batch, input_timeout >>
        throttled == << input_max_batch \div 10, 10 * input_timeout >>
    IN  /\ last_tick.time >= 10 => << max_batch, timeout >> = throttled
        /\ last_tick.time \in 0..9 => << max_batch, timeout >> = original
        /\ << max_batch, timeout >> \in {original, throttled}

\* C16 (amended): after a tick that found events in the buffer and took 10 s or
\* more (max_batch, timeout) is the throttled pair, after a faster tick that
\* found events it is the original pair, and it is one of the two in every
\* state; a tick that finds the buffer empty changes neither.
C16_ThrottleProcessed ==
    /\ [](/\ (last_tick.processed /\ last_tick.time >= 10)
                 => (/\ max_batch = input_max_batch \div 10
                     /\ timeout = 10 * input_timeout)
          /\ (last_tick.processed /\ last_tick.time < 10)
                 => (/\ max_batch = input_max_batch
                     /\ timeout = input_timeout)
          /\ << max_batch, timeout >> \in
                 { << input_max_batch, input_timeout >>,
                   << input_max_batch \div 10, 10 * input_timeout >> })
    /\ [][(dpc \in {"work", "final"} /\ Len(buffer) = 0 /\ dpc' # dpc)
             => (max_batch' = max_batch /\ timeout' = timeout)]_vars

\* a tick that found events has taken 10 s or more and the dispatcher is
\* throttled to a batch of at least one event
C16_Witness ==
    /\ last_tick.processed
    /\ last_tick.time >= 10
    /\ max_batch = input_max_batch \div 10
    /\ max_batch >= 1
    /\ timeout = 10 * input_timeout
    /\ dpc = "sleep"

\* a caller that hands over its events and then joins: handle_event is called
\* only before join()
handle_event_before_join ==
    /\ running
    /\ handle_event

NextJoin ==
    \/ register_event_handler
    \/ handle_event_before_join
    \/ join
    \/ job_loop
    \/ job_sleep
    \/ work
    \/ work_done
    \/ cancel
    \/ done_callback

SpecJoin == InitDispatch /\ [][NextJoin]_vars

\* C32: when join() has been called and the task has ended without an
\* exception, the buffer is empty: every event accepted before join() has been
\* handed to its handler.
C32_JoinDrains ==
    (~running /\ task = "finished") => Len(buffer) = 0

\* the events function f is being called with by the tick in progress
in_flight(f) ==
    LET calls == SelectSeq(tick_calls, LAMBDA c : c.f = f)
    IN  IF Len(calls) = 0 THEN << >> ELSE calls[1].events

\* the events buffered for function f, in the order of the buffer
buffered(f) ==
    LET mine == SelectSeq(buffer, LAMBDA e : e[1] = f)
    IN  [i \in 1..Len(mine) |-> mine[i][2]]

\* the events f has still to finish: those in flight, then those buffered
pending_events(f) == in_flight(f) \o buffered(f)

\* the number of batching registrations of f for an event type
batching_registrations(f, type) ==
    Len(SelectSeq(LOOKUP_MAP[type], LAMBDA r : r[1] = f /\ r[2]))

\* a dispatcher that hands out one event per tick, or all of them, and whose
\* task is not cancelled
InitOrder ==
    /\ QueueIdle
    /\ OthersIdle
    /\ \E max_batch_arg \in {1, MaxBatchBound} :
           dispatcher = DispatcherConstructed(MaxTimeout, max_batch_arg)
    /\ tracker = "none"
    /\ snap = "none"

NextOrder ==
    \/ register_event_handler
    \/ handle_event
    \/ join
    \/ job_loop
    \/ job_sleep
    \/ work
    \/ work_done
    \/ done_callback

SpecOrder == InitOrder /\ [][NextOrder]_vars

Reals == 1..ensemble_size

\* EE_SNAPSHOT events: a status for every realization
SnapshotEvents ==
    [type : {"EE_SNAPSHOT"}, iter : Iters, reals : [Reals -> RealStates]]

\* EE_SNAPSHOT_UPDATE events: a status for some of the realizations
UpdateEvents ==
    [type : {"EE_SNAPSHOT_UPDATE"}, iter : Iters,
     reals : UNION {[S -> RealStates] : S \in SUBSET Reals}]

\* the items of the work queue that neither track() nor _clear_work_queue has
\* taken yet
work_queue ==
    SubSeq(work_queue_log, get_count + cleared + 1, Len(work_queue_log))

\* is_finished: the drainer thread is not alive
is_finished == drainer = "exited"

\* self._iter_snapshot[iter_] = snapshot
store_all(snapshots, iter_, snapshot) ==
    [i \in (DOMAIN snapshots) \cup {iter_} |-> snapshot]
store(snapshots, iter_, snapshot) ==
    [i \in (DOMAIN snapshots) \cup {iter_} |->
        IF i = iter_ THEN snapshot ELSE snapshots[i]]

\* Snapshot.merge_event, _recursive_update: every field of the partial
\* replaces the field of the snapshot
recursive_update(left, right) ==
    [r \in DOMAIN left |-> IF r \in DOMAIN right THEN right[r] ELSE left[r]]

\* the test before OutOfOrderSnapshotUpdateException: no snapshot is stored
\* for the iteration of the update
out_of_order_falsy(snapshots, iter_) ==
    \/ iter_ \notin DOMAIN snapshots
    \/ iter_ = 0
out_of_order(snapshots, iter_) ==
    iter_ \notin DOMAIN snapshots

\* the class of the output track() yields for an item of the queue
yield_kind_full(type) ==
    CASE type = "EE_SNAPSHOT" -> "FullSnapshotEvent"
      [] type = "EE_SNAPSHOT_UPDATE" -> "FullSnapshotEvent"
      [] OTHER -> "EndEvent"
yield_kind(type) ==
    CASE type = "EE_SNAPSHOT" -> "FullSnapshotEvent"
      [] type = "EE_SNAPSHOT_UPDATE" -> "SnapshotUpdateEvent"
      [] OTHER -> "EndEvent"

\* _progress, as the fraction num/den:
\* (current_iter + done_reals / total_reals) / phaseCount
progress(snapshots, finished) ==
    IF finished THEN [num |-> 1, den |-> 1]
    ELSE IF DOMAIN snapshots = {} THEN [num |-> 0, den |-> 1]
    ELSE LET current_iter ==
                 CHOOSE i \in DOMAIN snapshots : \A j \in DOMAIN snapshots : j <= i
             reals == snapshots[current_iter]
             done_reals ==
                 Cardinality({r \in DOMAIN reals : reals[r] \in {"Finished", "Failed"}})
             total_reals == Cardinality(DOMAIN reals)
         IN  [num |-> current_iter * total_reals + done_reals,
              den |-> total_reals * phaseCount]

\* _progress divides done_reals by total_reals: the division fails when the
\* snapshot of the current iteration has no realization and the drainer runs
zero_division(snapshots, finished) ==
    /\ ~finished
    /\ DOMAIN snapshots # {}
    /\ LET current_iter ==
               CHOOSE i \in DOMAIN snapshots : \A j \in DOMAIN snapshots : j <= i
       IN  DOMAIN snapshots[current_iter] = {}

\* a <= b for two fractions with positive denominators
progress_le(a, b) == a.num * b.den <= b.num * a.den

\* a tracker of an ensemble of one realization
InitTrack ==
    /\ QueueIdle
    /\ OthersIdle
    /\ dispatcher = "none"
    /\ snap = "none"
    /\ tracker = TrackerConstructed(1)

\* the run model finishes (model.isFinished() becomes true)
model_finish ==
    /\ ~model_finished
    /\ tracker' = [tracker EXCEPT !.model_finished = TRUE]
    /\ UNCHANGED << dispatcher, snap, othervars, queuevars >>

\* _drain_monitor: the test of "while not self._model.isFinished()"; a
\* finished model ends the loop and DONE is put on the queue, otherwise the
\* drainer connects to a monitor
drain_loop ==
    /\ drainer = "loop"
    /\ tracker' =
           IF model_finished
           THEN [tracker EXCEPT
                    !.work_queue_log = Append(work_queue_log, DONE),
                    !.unfinished_tasks = unfinished_tasks + 1,
                    !.drainer = "join"]
           ELSE [tracker EXCEPT !.drainer = "tracking"]
    /\ UNCHANGED << dispatcher, snap, othervars, queuevars >>

\* the monitor delivers a snapshot event: it is put on the queue, the monitor
\* is signalled done on STOPPED and FAILED, and CANCELLED leads to the exit
drain_put(monitor_events, limit) ==
    \E event \in monitor_events, status \in EnsembleStates :
        /\ drainer = "tracking"
        /\ Len(work_queue_log) < limit
        /\ tracker' = [tracker EXCEPT
               !.work_queue_log = Append(work_queue_log, event),
               !.unfinished_tasks = unfinished_tasks + 1,
               !.drainer_last = [status |-> status,
                                 signalled |-> status \in {"Stopped", "Failed"}],
               !.drainer = IF status = "Cancelled" THEN "cancelled" ELSE drainer]
        /\ UNCHANGED << dispatcher, snap, othervars, queuevars >>

drain_event == drain_put(SnapshotEvents \cup UpdateEvents, MaxTrackEvents)

\* after a CANCELLED event: put DONE and return from _drain_monitor
drain_cancelled_no_return ==
    /\ drainer = "cancelled"
    /\ tracker' = [tracker EXCEPT
           !.work_queue_log = Append(work_queue_log, DONE),
           !.unfinished_tasks = unfinished_tasks + 1,
           !.drainer = "tracking"]
    /\ UNCHANGED << dispatcher, snap, othervars, queuevars >>
drain_cancelled ==
    /\ drainer = "cancelled"
    /\ tracker' = [tracker EXCEPT
           !.work_queue_log = Append(work_queue_log, DONE),
           !.unfinished_tasks = unfinished_tasks + 1,
           !.drainer = "exited"]
    /\ UNCHANGED << dispatcher, snap, othervars, queuevars >>

\* monitor.track() ends (after EE_TERMINATED, which is only logged) or the
\* connection is closed: sleep and test the loop condition again
drain_disconnect ==
    /\ drainer = "tracking"
    /\ tracker' = [tracker EXCEPT !.drainer = "loop"]
    /\ UNCHANGED << dispatcher, snap, othervars, queuevars >>

\* self._work_queue.join() returns once every item is marked done; the
\* drainer tears the model context down and ends
drain_join_nowait ==
    /\ drainer = "join"
    /\ tracker' = [tracker EXCEPT !.drainer = "exited"]
    /\ UNCHANGED << dispatcher, snap, othervars, queuevars >>
drain_join ==
    /\ drainer = "join"
    /\ unfinished_tasks = 0
    /\ tracker' = [tracker EXCEPT !.drainer = "exited"]
    /\ UNCHANGED << dispatcher, snap, othervars, queuevars >>

\* track: take the next item and run up to the yield.  DONE yields the
\* EndEvent (which carries neither iteration nor progress); EE_SNAPSHOT stores
\* the snapshot under its iteration; EE_SNAPSHOT_UPDATE raises when no
\* snapshot is stored for its iteration and merges into it otherwise.
track_get ==
    /\ tracker_pc = "get"
    /\ Len(work_queue) > 0
    /\ LET event == work_queue[1]
           iter_ == event.iter
           stored == store(iter_snapshot, iter_, event.reals)
           merged == store(iter_snapshot, iter_,
                           recursive_update(iter_snapshot[iter_], event.reals))
       IN  tracker' =
              CASE event.type = "done" ->
                      [tracker EXCEPT
                          !.get_count = get_count + 1,
                          !.outputs = Append(outputs,
                              [kind |-> yield_kind(event.type), iteration |-> -1,
                               progress |-> [num |-> 1, den |-> 1]]),
                          !.tracker_pc = "yield_end"]
                [] event.type = "EE_SNAPSHOT" ->
                      IF zero_division(stored, is_finished)
                      THEN [tracker EXCEPT
                               !.get_count = get_count + 1,
                               !.iter_snapshot = stored,
                               !.tracker_pc = "zero_division"]
                      ELSE [tracker EXCEPT
                               !.get_count = get_count + 1,
                               !.iter_snapshot = stored,
                               !.outputs = Append(outputs,
                                   [kind |-> yield_kind(event.type),
                                    iteration |-> iter_,
                                    progress |-> progress(stored, is_finished)]),
                               !.tracker_pc = "yield"]
                [] event.type = "EE_SNAPSHOT_UPDATE" ->
                      IF out_of_order(iter_snapshot, iter_)
                      THEN [tracker EXCEPT
                               !.get_count = get_count + 1,
                               !.tracker_pc = "raised"]
                      ELSE IF zero_division(merged, is_finished)
                      THEN [tracker EXCEPT
                               !.get_count = get_count + 1,
                               !.iter_snapshot = merged,
                               !.tracker_pc = "zero_division"]
                      ELSE [tracker EXCEPT
                               !.get_count = get_count + 1,
                               !.iter_snapshot = merged,
                               !.outputs = Append(outputs,
                                   [kind |-> yield_kind(event.type),
                                    iteration |-> iter_,
                                    progress |-> progress(merged, is_finished)]),
                               !.tracker_pc = "yield"]
    /\ UNCHANGED << dispatcher, snap, othervars, queuevars >>

\* track: the consumer asks for the next output; the generator marks the item
\* done and takes the next one, or ends after the EndEvent
track_next ==
    /\ tracker_pc \in {"yield", "yield_end"}
    /\ tracker' = [tracker EXCEPT
           !.unfinished_tasks = unfinished_tasks - 1,
           !.tracker_pc = IF tracker_pc = "yield" THEN "get" ELSE "returned"]
    /\ UNCHANGED << dispatcher, snap, othervars, queuevars >>

NextTrack ==
    \/ model_finish
    \/ drain_loop
    \/ drain_event
    \/ drain_cancelled
    \/ drain_disconnect
    \/ drain_join
    \/ track_get
    \/ track_next

SpecTrack == InitTrack /\ [][NextTrack]_vars

\* a tracker of an ensemble of up to MaxReals realizations
InitProgress ==
    /\ QueueIdle
    /\ OthersIdle
    /\ dispatcher = "none"
    /\ snap = "none"
    /\ \E size \in 1..MaxReals : tracker = TrackerConstructed(size)

SpecProgress == InitProgress /\ [][NextTrack]_vars

\* a tracker of an ensemble without realizations: every snapshot it receives
\* has an empty reals mapping
InitEmpty ==
    /\ QueueIdle
    /\ OthersIdle
    /\ dispatcher = "none"
    /\ snap = "none"
    /\ tracker = TrackerConstructed(0)

SpecEmpty == InitEmpty /\ [][NextTrack]_vars

\* request_termination up to the loop: wait_for_evaluator raises ClientError
\* and the call returns, or the evaluator is reachable and the cancel signal
\* is sent to it
request_termination ==
    \E reachable \in BOOLEAN :
        /\ terminator = "idle"
        /\ tracker' = [tracker EXCEPT
               !.terminator = IF reachable THEN "check" ELSE "gave_up"]
        /\ UNCHANGED << dispatcher, snap, othervars, queuevars >>

\* request_termination: the test of "while self._drainer_thread.is_alive()"
termination_check ==
    /\ terminator = "check"
    /\ tracker' = [tracker EXCEPT
           !.terminator = IF is_finished THEN "returned" ELSE "clearing"]
    /\ UNCHANGED << dispatcher, snap, othervars, queuevars >>

\* _clear_work_queue: get_nowait() and task_done() for an item of the queue;
\* on an empty queue the call returns and the caller sleeps
clear_work_queue ==
    /\ terminator = "clearing"
    /\ tracker' =
           IF Len(work_queue) > 0
           THEN [tracker EXCEPT !.cleared = cleared + 1,
                                !.unfinished_tasks = unfinished_tasks - 1]
           ELSE [tracker EXCEPT !.terminator = "check"]
    /\ UNCHANGED << dispatcher, snap, othervars, queuevars >>

\* the monitor delivers an event of the first iteration
drain_event_first_iteration ==
    drain_put({e \in SnapshotEvents \cup UpdateEvents : e.iter = 0},
              MaxTrackEvents)

NextTerminate ==
    \/ model_finish
    \/ drain_loop
    \/ drain_event_first_iteration
    \/ drain_cancelled
    \/ drain_disconnect
    \/ drain_join
    \/ track_get
    \/ track_next
    \/ request_termination
    \/ termination_check
    \/ clear_work_queue

SpecTerminate == InitTrack /\ [][NextTerminate]_vars

\* the threads of the tracker keep running: the drainer, the caller of
\* request_termination and a consumer that keeps iterating track()
FairTerminate ==
    /\ SpecTerminate
    /\ WF_vars(drain_loop)
    /\ WF_vars(drain_cancelled)
    /\ WF_vars(drain_join)
    /\ WF_vars(termination_check)
    /\ WF_vars(clear_work_queue)
    /\ WF_vars(track_get)
    /\ WF_vars(track_next)

\* a tracker in the second iteration: track() has taken the full snapshots
\* of the iterations 0 and 1 and waits for the next item
TrackerInSecondIteration ==
    LET first == [type |-> "EE_SNAPSHOT", iter |-> 0, reals |-> (1 :> "Finished")]
        second == [type |-> "EE_SNAPSHOT", iter |-> 1, reals |-> (1 :> "Running")]
        stored0 == store(<< >>, 0, first.reals)
        stored1 == store(stored0, 1, second.reals)
    IN  [TrackerConstructed(1) EXCEPT
            !.work_queue_log = << first, second >>,
            !.get_count = 2,
            !.iter_snapshot = stored1,
            !.outputs = << [kind |-> yield_kind(first.type), iteration |-> 0,
                            progress |-> progress(stored0, FALSE)],
                           [kind |-> yield_kind(second.type), iteration |-> 1,
                            progress |-> progress(stored1, FALSE)] >>,
            !.drainer = "tracking"]

InitIterations ==
    /\ QueueIdle
    /\ OthersIdle
    /\ dispatcher = "none"
    /\ snap = "none"
    /\ tracker = TrackerInSecondIteration

\* the drainer may queue MaxTrackEvents - 1 events after the two snapshots
drain_event_later ==
    drain_put(SnapshotEvents \cup UpdateEvents, MaxTrackEvents + 1)

NextIterations ==
    \/ model_finish
    \/ drain_loop
    \/ drain_event_later
    \/ drain_cancelled
    \/ drain_disconnect
    \/ drain_join
    \/ track_get
    \/ track_next

SpecIterations == InitIterations /\ [][NextIterations]_vars

(* ---- claims about the tracker ---- *)
\* C17: track() raises the out-of-order exception exactly when it takes an
\* EE_SNAPSHOT_UPDATE whose iteration has no stored snapshot, and then neither
\* the stored snapshots nor the outputs change.
C17_OutOfOrder ==
    [][get_count' = get_count + 1 =>
          LET event == work_queue_log[get_count + 1]
          IN  /\ tracker_pc' = "raised" <=>
                     (/\ event.type = "EE_SNAPSHOT_UPDATE"
                      /\ event.iter \notin DOMAIN iter_snapshot)
              /\ tracker_pc' = "raised" =>
                     (iter_snapshot' = iter_snapshot /\ outputs' = outputs)]_vars

\* track() has raised on an update for iteration 1 while only the snapshot of
\* iteration 0 is stored
C17_Witness ==
    /\ tracker_pc = "raised"
    /\ DOMAIN iter_snapshot = {0}
    /\ work_queue_log[get_count].iter = 1

C19_DrainerSignalsDone ==
    /\ drainer_last.status \in {"Stopped", "Failed", "Cancelled"}
          => drainer_last.signalled
    /\ (drainer_last.status = "Cancelled" /\ drainer # "cancelled")
          => (/\ drainer = "exited"
              /\ work_queue_log[Len(work_queue_log)].type = "done")

\* C20: of two outputs of track() for the same iteration the later one does
\* not report a smaller progress.
C20_ProgressMonotone ==
    \A i, j \in 1..Len(outputs) :
        (/\ i < j
         /\ outputs[i].kind # "EndEvent"
         /\ outputs[j].kind # "EndEvent"
         /\ outputs[i].iteration = outputs[j].iteration)
            => progress_le(outputs[i].progress, outputs[j].progress)

\* C21: track() does not fail in the progress computation, and for a snapshot
\* without realizations it reports the progress 0.0 (1.0 once the drainer
\* thread has ended).
C21_ProgressZeroReals ==
    /\ tracker_pc # "zero_division"
    /\ \A i \in 1..Len(outputs) :
          (outputs[i].kind # "EndEvent" /\ ensemble_size = 0)
             => outputs[i].progress \in {[num |-> 0, den |-> 1], [num |-> 1, den |-> 1]}

\* C36: the work queue holds the sentinel DONE at most once and nothing after
\* it; the drainer has put it exactly when it has left its loop because the
\* model finished or has returned after a CANCELLED event.
C36_DoneOnce ==
    LET dones == { k \in 1..Len(work_queue_log) : work_queue_log[k] = DONE }
    IN  /\ Cardinality(dones) <= 1
        /\ dones \subseteq {Len(work_queue_log)}
        /\ drainer \in {"join", "exited"} <=> Cardinality(dones) = 1

\* the drainer has returned after a CANCELLED event that followed another event
C36_Witness ==
    /\ drainer = "exited"
    /\ drainer_last.status = "Cancelled"
    /\ Len(work_queue_log) = 3
    /\ work_queue_log[3] = DONE
    /\ ~model_finished

\* the drainer has returned from _work_queue.join() and has called
\* model.teardown_context()
teardown_called ==
    /\ drainer = "exited"
    /\ drainer_last.status # "Cancelled"

\* C37: the drainer ends its join and calls teardown_context only when every
\* item of the work queue, DONE included, has been taken by track() or by
\* _clear_work_queue and marked done, and it does so at most once: it is not
\* alive afterwards.
C37_TeardownAfterAllDone ==
    [][/\ (~teardown_called /\ teardown_called') =>
             (/\ unfinished_tasks = 0
              /\ get_count + cleared = Len(work_queue_log)
              /\ Len(work_queue_log) > 0
              /\ work_queue_log[Len(work_queue_log)] = DONE
              /\ tracker_pc \in {"get", "returned"})
       /\ teardown_called => (teardown_called' /\ drainer' = "exited")]_vars

\* teardown_context has been called after track() took the first item and
\* _clear_work_queue took the others
C37_Witness ==
    /\ teardown_called
    /\ get_count = 1
    /\ cleared = 2
    /\ tracker_pc = "get"

\* C33: once request_termination has sent the cancel signal, a drainer that
\* waits in _work_queue.join() does not wait for ever: it exits.
C33_DrainerExits ==
    (terminator \in {"check", "clearing"} /\ drainer = "join")
        ~> drainer = "exited"

\* C34: when track() merges an EE_SNAPSHOT_UPDATE of iteration i, the
\* snapshots stored for all other iterations stay as they are, no iteration
\* is added or removed, and in the snapshot of iteration i exactly the
\* realizations of the update take the status the update carries.
C34_NoCrossTalk ==
    [][(/\ get_count' = get_count + 1
        /\ work_queue_log[get_count + 1].type = "EE_SNAPSHOT_UPDATE"
        /\ tracker_pc' # "raised") =>
          LET event == work_queue_log[get_count + 1]
          IN  /\ DOMAIN iter_snapshot' = DOMAIN iter_snapshot
              /\ \A j \in DOMAIN iter_snapshot :
                    j # event.iter => iter_snapshot'[j] = iter_snapshot[j]
              /\ \A r \in DOMAIN iter_snapshot[event.iter] :
                    iter_snapshot'[event.iter][r] =
                        IF r \in DOMAIN event.reals THEN event.reals[r]
                        ELSE iter_snapshot[event.iter][r]]_vars

\* with the snapshots of two iterations stored, an update of iteration 1 has
\* been merged and has changed the status of its realization
C34_Witness ==
    /\ DOMAIN iter_snapshot = {0, 1}
    /\ get_count = 3
    /\ tracker_pc = "yield"
    /\ work_queue_log[3].type = "EE_SNAPSHOT_UPDATE"
    /\ work_queue_log[3].iter = 1
    /\ iter_snapshot[1][1] = "Failed"
    /\ iter_snapshot[0][1] = "Finished"

(***************************************************************************)
(* The snapshot model (snapshot.py).  Snapshot._data is a tree of mappings: *)
(* ensemble -> reals -> steps -> jobs -> fields.  A node of the tree is     *)
(* Leaf(value) or Map(items), items a function from keys to nodes; every    *)
(* key is a string.  Of a realization the model keeps status and steps, of  *)
(* a step status and jobs, of a job status, start_time, end_time, stdout    *)
(* and error; None is the leaf of an unset field.  The table _job_states of *)
(* a PartialSnapshot is a function from (real, step, job) to a row, with    *)
(* the order in which the rows were added.                                  *)
(***************************************************************************)
Leaf(value) == [leaf |-> value]
Map(items) == [map |-> items]
None == Leaf("None")

\* isinstance(v, collections.abc.Mapping)
IsMapping(v) == "map" \in DOMAIN v

\* the truth value of a node: None and the empty mapping are false
truthy(v) == IF IsMapping(v) THEN DOMAIN v.map # {} ELSE v # None

\* the exceptions of the snapshot operations, as results
IllegalField == [raised |-> "ValueError: Illegal field"]
KeyError == [raised |-> "KeyError"]

\* state.ENSEMBLE_STATE_*, REALIZATION_STATE_*, STEP_STATE_*, JOB_STATE_*
EnsembleStatuses == {"Unknown", "Starting", "Stopped", "Cancelled", "Failed"}
RealizationStatuses == {"Unknown", "Running", "Finished", "Failed"}
JobStatuses == {"Unknown", "Pending", "Running", "Finished", "Failed"}

\* realization ids and job ids of a built snapshot; the step id is always "0"
RealIds == {ToString(i) : i \in 0..(MaxSnapshotReals - 1)}
JobIds == {"0"}
STEP_ID == "0"

\* the keys of a job, and a job of a built snapshot (SnapshotBuilder.add_job)
JobFields == {"status", "start_time", "end_time", "stdout", "error"}
BuiltJob(status) ==
    Map([f \in JobFields |-> IF f = "status" THEN Leaf(status) ELSE None])

\* SnapshotBuilder.add_step, add_job, build(real_ids, status): every
\* realization gets the step "0" with the jobs of job_status
build(real_ids, status, job_status) ==
    LET step == Map(("status" :> Leaf(status)) @@
                    ("jobs" :> Map([j \in DOMAIN job_status |-> BuiltJob(job_status[j])])))
        real == Map(("status" :> Leaf(status)) @@
                    ("steps" :> Map(STEP_ID :> step)))
    IN  ("status" :> Leaf(status)) @@
        ("reals" :> Map([r \in real_ids |-> real])) @@
        ("metadata" :> Map(<< >>))

\* the nested mapping {path[1]: {path[2]: ... node}}
RECURSIVE Nest(_, _)
Nest(path, node) ==
    IF path = << >> THEN node
    ELSE Map(Head(path) :> Nest(Tail(path), node))

\* _recursive_update(left, right, check_key) on the items of two mappings:
\* the updated items of left, or IllegalField
RECURSIVE _recursive_update(_, _, _)
_recursive_update_shallow(left, right, check_key) ==
    IF check_key /\ \E k \in DOMAIN right : k \notin DOMAIN left
    THEN IllegalField
    ELSE [k \in (DOMAIN left) \cup (DOMAIN right) |->
             IF k \in DOMAIN right THEN right[k] ELSE left[k]]
_recursive_update(left, right, check_key) ==
    IF check_key /\ \E k \in DOMAIN right : k \notin DOMAIN left
    THEN IllegalField
    ELSE LET set(k) ==
                 IF k \notin DOMAIN right THEN left[k]
                 ELSE IF IsMapping(right[k]) /\ k \in DOMAIN left /\ truthy(left[k])
                 THEN LET sub == _recursive_update(left[k].map, right[k].map, check_key)
                      IN  IF sub = IllegalField THEN IllegalField ELSE Map(sub)
                 ELSE right[k]
             updated == [k \in (DOMAIN left) \cup (DOMAIN right) |-> set(k)]
         IN  IF \E k \in DOMAIN updated : updated[k] = IllegalField
             THEN IllegalField
             ELSE updated

\* the first n ids
IdsBelow(n) == {ToString(i) : i \in 0..(n - 1)}

\* an id no built snapshot has
UNKNOWN_ID == "9"

\* a PartialSnapshot right after __init__
PartialConstructed ==
    [ensemble_state |-> "None", job_states |-> << >>, job_order |-> << >>]

\* a snapshot as built, with a fresh partial and no operation called yet
SnapshotBuilt(input_dict) ==
    [data |-> input_dict,
     partial |-> PartialConstructed,
     received |-> << >>,
     last_call |-> [op |-> "none", arg |-> << >>, raised |-> FALSE, repeated |-> FALSE]]

\* the updates passed to Snapshot.merge: the empty update, updates without a
\* field, updates of one status, and updates that name a realization, step,
\* job or field no built snapshot has
Updates ==
    {<< >>}
    \cup {"reals" :> Map(<< >>)}
    \cup {"status" :> Leaf(s) : s \in {"Starting", "Stopped"}}
    \cup {"metadata" :> Map("iter" :> Leaf("0"))}
    \cup {"reals" :> Nest(<< r, "status" >>, Leaf(s)) :
             r \in RealIds, s \in {"Running", "Finished", "Failed"}}
    \cup {"reals" :> Nest(<< r, "steps", STEP_ID, "jobs", j, "status" >>, Leaf("Finished")) :
             r \in RealIds, j \in JobIds \cup {UNKNOWN_ID}}
    \cup {"reals" :> Nest(<< r, "steps", UNKNOWN_ID, "status" >>, Leaf("Running")) :
             r \in RealIds}
    \cup {"reals" :> Nest(<< r, "stdout" >>, Leaf("out")) : r \in RealIds}
    \cup {"reals" :> Nest(<< UNKNOWN_ID, "status" >>, Leaf("Running"))}
    \cup {"stdout" :> Leaf("out")}

\* a built snapshot of up to MaxSnapshotReals realizations, whose step has
\* the job "0" or no job, everything in the state Unknown
InitMerge ==
    /\ QueueIdle
    /\ OthersIdle
    /\ dispatcher = "none"
    /\ tracker = "none"
    /\ \E n \in 0..MaxSnapshotReals, job_ids \in SUBSET JobIds :
          snap = SnapshotBuilt(build(IdsBelow(n), "Unknown",
                                     [j \in job_ids |-> "Unknown"]))

\* Snapshot.merge(update): _data becomes the updated mapping unless
\* _recursive_update raises
merge(update) ==
    /\ LET result == _recursive_update(data, update, TRUE)
       IN  snap' = [snap EXCEPT
              !.data = IF result = IllegalField THEN data ELSE result,
              !.last_call = [op |-> "merge", arg |-> update,
                             raised |-> result = IllegalField,
                             repeated |-> /\ last_call.op = "merge"
                                          /\ last_call.arg = update]]
    /\ UNCHANGED << dispatcher, tracker, othervars, queuevars >>

NextMerge == \E update \in Updates : merge(update)

SpecMerge == InitMerge /\ [][NextMerge]_vars

(* ---- claims about Snapshot.merge ---- *)
\* the status of realization r in the mapping d (Snapshot.get_real(r).status)
real_status(d, r) ==
    LET real == d["reals"].map[r]
    IN  IF "status" \in DOMAIN real.map THEN real.map["status"] ELSE None

\* right names a key, at some level, that left does not have
RECURSIVE references_missing(_, _)
references_missing(left, right) ==
    \E k \in DOMAIN right :
       \/ k \notin DOMAIN left
       \/ /\ IsMapping(right[k])
          /\ references_missing(IF IsMapping(left[k]) THEN left[k].map ELSE << >>,
                                right[k].map)

\* right names a key that left does not have, at a level that is reached
\* through non-empty mappings of left only
RECURSIVE references_missing_in_nonempty(_, _)
references_missing_in_nonempty(left, right) ==
    \E k \in DOMAIN right :
       \/ k \notin DOMAIN left
       \/ /\ IsMapping(right[k])
          /\ truthy(left[k])
          /\ references_missing_in_nonempty(left[k].map, right[k].map)

\* right sets no field: it is empty, or a tree of empty mappings
RECURSIVE sets_nothing(_)
sets_nothing(right) ==
    \A k \in DOMAIN right : IsMapping(right[k]) /\ sets_nothing(right[k].map)

\* C22: a merge does not change the status of a realization that is Finished
\* or Failed.
C22_TerminalStatusKept ==
    [][\A r \in DOMAIN data["reals"].map :
          real_status(data, r) \in {Leaf("Finished"), Leaf("Failed")}
             => /\ r \in DOMAIN data'["reals"].map
                /\ real_status(data', r) = real_status(data, r)]_vars

C24_MergeIdempotent ==
    [][last_call'.op = "merge"
          => /\ (last_call'.repeated /\ ~last_call.repeated)
                   => (data' = data /\ last_call'.raised = last_call.raised)
             /\ (sets_nothing(last_call'.arg) /\ ~last_call'.raised)
                   => data' = data]_vars

\* an update that changed the status of a realization has been merged a
\* second time
C24_Witness ==
    /\ last_call.op = "merge"
    /\ last_call.repeated
    /\ ~last_call.raised
    /\ \E r \in RealIds :
          /\ last_call.arg = ("reals" :> Nest(<< r, "status" >>, Leaf("Finished")))
          /\ real_status(data, r) = Leaf("Finished")

(***************************************************************************)
(* PartialSnapshot.  update_status and update_job fill the partial,        *)
(* to_dict turns it into the mapping that Snapshot.merge_event merges.     *)
(* A Job is a function from JobFields to values, "None" for an unset       *)
(* field; a timestamp is the text of a small number.                       *)
(***************************************************************************)
\* _FM_TYPE_EVENT_TO_STATUS for the job events
FM_TYPE_EVENT_TO_STATUS(e_type) ==
    CASE e_type = "FM_JOB_START" -> "Pending"
      [] e_type = "FM_JOB_RUNNING" -> "Running"
      [] e_type = "FM_JOB_SUCCESS" -> "Finished"
      [] e_type = "FM_JOB_FAILURE" -> "Failed"
      [] e_type = "FM_STEP_SUCCESS" -> "Success"
      [] e_type = "FM_STEP_TIMEOUT" -> "Failure"
      [] OTHER -> "None"

JobEventTypes == {"FM_JOB_START", "FM_JOB_RUNNING", "FM_JOB_SUCCESS", "FM_JOB_FAILURE"}

\* the Job that from_cloudevent builds for a job event received at timestamp
job_of_event(e_type, timestamp) ==
    [f \in JobFields |->
        CASE f = "status" -> FM_TYPE_EVENT_TO_STATUS(e_type)
          [] f = "start_time" ->
                IF e_type = "FM_JOB_START" THEN ToString(timestamp) ELSE "None"
          [] f = "end_time" ->
                IF e_type \in {"FM_JOB_SUCCESS", "FM_JOB_FAILURE"}
                THEN ToString(timestamp) ELSE "None"
          [] f = "stdout" -> IF e_type = "FM_JOB_START" THEN "out" ELSE "None"
          [] f = "error" -> IF e_type = "FM_JOB_FAILURE" THEN "failed" ELSE "None"]

\* dict.update: every key of other, the ones with the value None included,
\* replaces the entry of d
dict_update(d, other) ==
    [k \in (DOMAIN d) \cup (DOMAIN other) |->
        IF k \in DOMAIN other THEN other[k] ELSE d[k]]

\* _filter_nones on a row, as a mapping of leaves
filter_nones(row) ==
    Map([f \in {g \in DOMAIN row : row[g] # "None"} |-> Leaf(row[f])])

\* the loop of to_dict over the rows of _job_states from row i on: _dict
\* with the jobs filled in, or KeyError
RECURSIVE to_dict_jobs(_, _, _)
to_dict_jobs(dict, p, i) ==
    IF i > Len(p.job_order) THEN dict
    ELSE LET job_idx == p.job_order[i]
             real_id == job_idx[1]
             step_id == job_idx[2]
             job_id == job_idx[3]
             with_reals ==
                 IF "reals" \notin DOMAIN dict
                 THEN ("reals" :> Map(real_id :> Map(<< >>))) @@ dict
                 ELSE dict
             reals == with_reals["reals"].map
         IN  IF real_id \notin DOMAIN reals THEN KeyError
             ELSE LET jobs == job_id :> filter_nones(p.job_states[job_idx])
                      steps == step_id :> Map("jobs" :> Map(jobs))
                      real == Map(("steps" :> Map(steps)) @@ reals[real_id].map)
                  IN  to_dict_jobs(("reals" :> Map((real_id :> real) @@ reals))
                                       @@ with_reals, p, i + 1)

\* PartialSnapshot.to_dict (no metadata, no rows in _realization_states)
to_dict(p) ==
    to_dict_jobs(IF p.ensemble_state # "None"
                 THEN "status" :> Leaf(p.ensemble_state)
                 ELSE << >>,
                 p, 1)

\* PartialSnapshot(snapshot): a new partial for the snapshot
new_partial ==
    /\ snap' = [snap EXCEPT
           !.partial = PartialConstructed,
           !.last_call = [op |-> "PartialSnapshot", arg |-> << >>,
                          raised |-> FALSE, repeated |-> FALSE]]
    /\ UNCHANGED << dispatcher, tracker, othervars, queuevars >>

\* update_status(status)
update_status(status) ==
    /\ snap' = [snap EXCEPT
           !.partial.ensemble_state = status,
           !.last_call = [op |-> "update_status", arg |-> << status >>,
                          raised |-> FALSE, repeated |-> FALSE]]
    /\ UNCHANGED << dispatcher, tracker, othervars, queuevars >>

\* update_job(real_id, step_id, job_id, job): the row of the job is updated
\* with job.dict(), or added
update_job(real_id, step_id, job_id, job) ==
    /\ LET job_idx == << real_id, step_id, job_id >>
           known == job_idx \in DOMAIN partial.job_states
           row == IF known THEN dict_update(partial.job_states[job_idx], job) ELSE job
       IN  snap' = [snap EXCEPT
              !.partial.job_states = (job_idx :> row) @@ @,
              !.partial.job_order = IF known THEN @ ELSE Append(@, job_idx),
              !.last_call = [op |-> "update_job",
                             arg |-> << real_id, step_id, job_id, job >>,
                             raised |-> FALSE, repeated |-> FALSE]]
    /\ UNCHANGED << dispatcher, tracker, othervars, queuevars >>

\* Snapshot.merge_event(event): merge event.data(), which is event.to_dict()
merge_event_in_place ==
    /\ LET update == to_dict(partial)
           result == IF update = KeyError THEN KeyError
                     ELSE _recursive_update(data, update, TRUE)
           raised == result \in {KeyError, IllegalField}
           legal == [k \in (DOMAIN update) \cap (DOMAIN data) |->
                        IF IsMapping(update[k]) THEN data[k] ELSE update[k]]
       IN  snap' = [snap EXCEPT
              !.data = IF result = KeyError THEN data
                       ELSE IF result = IllegalField
                       THEN _recursive_update(data, legal, FALSE)
                       ELSE result,
              !.last_call = [op |-> "merge_event", arg |-> << >>,
                             raised |-> raised, repeated |-> FALSE]]
    /\ UNCHANGED << dispatcher, tracker, othervars, queuevars >>
merge_event ==
    /\ LET update == to_dict(partial)
           result == IF update = KeyError THEN KeyError
                     ELSE _recursive_update(data, update, TRUE)
           raised == result \in {KeyError, IllegalField}
       IN  snap' = [snap EXCEPT
              !.data = IF raised THEN data ELSE result,
              !.last_call = [op |-> "merge_event", arg |-> << >>,
                             raised |-> raised, repeated |-> FALSE]]
    /\ UNCHANGED << dispatcher, tracker, othervars, queuevars >>

NextPartial ==
    \/ new_partial
    \/ \E status \in EnsembleStatuses \ {"Unknown"} : update_status(status)
    \/ \E real_id \in RealIds \cup {UNKNOWN_ID}, job_id \in JobIds,
          e_type \in JobEventTypes :
          update_job(real_id, STEP_ID, job_id, job_of_event(e_type, 1))
    \/ merge_event

SpecPartial == InitMerge /\ [][NextPartial]_vars

\* updates for Snapshot.merge that name the status of the ensemble first and
\* then a field, or a realization, that no built snapshot has
MixedUpdates ==
    {("status" :> Leaf(s)) @@ ("stdout" :> Leaf("out")) : s \in {"Starting", "Stopped"}}
    \cup {("status" :> Leaf("Stopped"))
             @@ ("reals" :> Nest(<< UNKNOWN_ID, "status" >>, Leaf("Running")))}
    \cup {"status" :> Leaf("Starting")}

\* partials of a status and of started jobs are merged as events, and mixed
\* updates are merged directly
NextRaising ==
    \/ new_partial
    \/ \E status \in {"Starting", "Stopped"} : update_status(status)
    \/ \E real_id \in RealIds \cup {UNKNOWN_ID} :
          update_job(real_id, STEP_ID, "0", job_of_event("FM_JOB_START", 1))
    \/ merge_event
    \/ \E update \in MixedUpdates : merge(update)

SpecRaising == InitMerge /\ [][NextRaising]_vars

(* ---- claims about the partial ---- *)
\* C40: when merge or merge_event raises, for an illegal field or in to_dict,
\* the data of the snapshot is what it was before the call, also when the
\* illegal key comes after keys of the same update that the snapshot has.
C40_RaisingMergeKeepsData ==
    [][(last_call'.op \in {"merge", "merge_event"} /\ last_call'.raised)
          => (data' = data)]_vars

\* merge_event has raised for a partial whose status, the first key of its
\* mapping, is a field of the snapshot with another value, and whose job is of
\* a realization the snapshot lacks
C40_Witness ==
    /\ last_call.op = "merge_event"
    /\ last_call.raised
    /\ partial.ensemble_state # "None"
    /\ data["status"] # Leaf(partial.ensemble_state)
    /\ to_dict(partial) # KeyError
    /\ DOMAIN to_dict(partial) = {"status", "reals"}
    /\ _recursive_update(data, to_dict(partial), TRUE) = IllegalField

\* C25: a second update_job for a job leaves every field that it does not
\* set at the value the earlier update gave it.
C25_UnsetMeansUnchanged ==
    [][last_call'.op = "update_job"
          => LET job_idx == SubSeq(last_call'.arg, 1, 3)
                 job == last_call'.arg[4]
             IN  job_idx \in DOMAIN partial.job_states
                    => \A f \in JobFields :
                          (job[f] = "None" /\ partial.job_states[job_idx][f] # "None")
                             => partial'.job_states[job_idx][f]
                                   = partial.job_states[job_idx][f]]_vars

\* the place of an ensemble status on UNKNOWN -> STARTED -> STOPPED | FAILED | CANCELLED
status_rank(status) ==
    CASE status = Leaf("Unknown") -> 0
      [] status = Leaf("Starting") -> 1
      [] OTHER -> 2

\* C30: no operation moves the status of the snapshot backwards.
C30_EnsembleStatusForward ==
    [][status_rank(data'["status"]) >= status_rank(data["status"])]_vars

(***************************************************************************)
(* PartialSnapshot.from_cloudevent.  An event is its type, the ids of its  *)
(* source and its time.                                                    *)
(***************************************************************************)
\* the job ids events are sent for
EventJobIds == {"0", "1"}

CloudEvents ==
    [type : JobEventTypes, real : RealIds, step : {STEP_ID}, job : EventJobIds,
     time : 1..2]
    \cup [type : {"FM_STEP_SUCCESS", "FM_STEP_TIMEOUT"}, real : RealIds,
          step : {STEP_ID}, job : {"None"}, time : 1..2]
    \cup [type : {"ENSEMBLE_STARTED", "ENSEMBLE_STOPPED"}, real : {"None"},
          step : {"None"}, job : {"None"}, time : 1..2]

\* the error text of a job stopped by FM_STEP_TIMEOUT
MAX_RUNTIME_ERROR == "The run is cancelled due to reaching MAX_RUNTIME"

\* a built snapshot whose jobs are Running or Finished
InitCloudEvents ==
    /\ QueueIdle
    /\ OthersIdle
    /\ dispatcher = "none"
    /\ tracker = "none"
    /\ \E n \in 0..MaxSnapshotReals, job_ids \in SUBSET JobIds :
          \E job_status \in [job_ids -> {"Running", "Finished"}] :
             snap = SnapshotBuilt(build(IdsBelow(n), "Unknown", job_status))

\* from_cloudevent(event): the test of self._snapshot comes before any update,
\* and __init__ sets no attribute _snapshot: the call raises AttributeError
\* and the partial stays as it was
from_cloudevent(event) ==
    /\ Len(received) < MaxCloudEvents
    /\ snap' = [snap EXCEPT
           !.received = Append(@, event),
           !.last_call = [op |-> "from_cloudevent", arg |-> << >>,
                          raised |-> TRUE, repeated |-> FALSE]]
    /\ UNCHANGED << dispatcher, tracker, othervars, queuevars >>

NextCloudEvents == \E event \in CloudEvents : from_cloudevent(event)

SpecCloudEvents == InitCloudEvents /\ [][NextCloudEvents]_vars

(* ---- claims about from_cloudevent ---- *)
\* the node at path below the items of a mapping, None where there is none
RECURSIVE at(_, _)
at(items, path) ==
    IF Head(path) \notin DOMAIN items THEN None
    ELSE LET v == items[Head(path)]
         IN  IF Len(path) = 1 THEN v
             ELSE IF IsMapping(v) THEN at(v.map, Tail(path))
             ELSE None

\* two events of the same job
same_job(e1, e2) ==
    /\ e1.type \in JobEventTypes
    /\ e2.type \in JobEventTypes
    /\ e1.real = e2.real /\ e1.step = e2.step /\ e1.job = e2.job

\* C26: to_dict() has an entry for every job that from_cloudevent received an
\* event for, with the status mapped from the last event received for the job.
C26_JobEntriesFromEvents ==
    \A i \in 1..Len(received) :
       LET e == received[i]
       IN  (/\ e.type \in JobEventTypes
            /\ \A k \in (i + 1)..Len(received) : ~same_job(received[k], e))
              => at(to_dict(partial),
                    << "reals", e.real, "steps", e.step, "jobs", e.job, "status" >>)
                    = Leaf(FM_TYPE_EVENT_TO_STATUS(e.type))

\* C27: after an FM_STEP_SUCCESS event that leaves every step of a realization
\* of the snapshot in SUCCESS, to_dict() gives the realization the status
\* Finished.
C27_RealizationFinishedBySteps ==
    \A i \in 1..Len(received) :
       LET e == received[i]
       IN  (/\ e.type = "FM_STEP_SUCCESS"
            /\ e.real \in DOMAIN data["reals"].map
            /\ \A k \in (i + 1)..Len(received) :
                  ~(received[k].type = "FM_STEP_TIMEOUT" /\ received[k].real = e.real)
            /\ \A s \in DOMAIN data["reals"].map[e.real].map["steps"].map \ {e.step} :
                  at(data, << "reals", e.real, "steps", s, "status" >>) = Leaf("Success"))
              => at(to_dict(partial), << "reals", e.real, "status" >>) = Leaf("Finished")

\* C28: after an FM_STEP_TIMEOUT event as the last event, to_dict() has the
\* step as Failure, the partial has every job of the step that is not Finished
\* in the snapshot as Failed with the MAX_RUNTIME error, and it has no row for
\* a Finished job that no event was received for.
C28_TimeoutFailsUnfinishedJobs ==
    (/\ Len(received) > 0
     /\ received[Len(received)].type = "FM_STEP_TIMEOUT"
     /\ received[Len(received)].real \in DOMAIN data["reals"].map)
       => LET e == received[Len(received)]
              jobs == at(data, << "reals", e.real, "steps", e.step, "jobs" >>).map
          IN  /\ at(to_dict(partial), << "reals", e.real, "steps", e.step, "status" >>)
                    = Leaf("Failure")
              /\ \A j \in DOMAIN jobs :
                    LET job_idx == << e.real, e.step, j >>
                    IN  IF jobs[j].map["status"] # Leaf("Finished")
                        THEN /\ job_idx \in DOMAIN partial.job_states
                             /\ partial.job_states[job_idx]["status"] = "Failed"
                             /\ partial.job_states[job_idx]["error"] = MAX_RUNTIME_ERROR
                        ELSE (\A k \in 1..Len(received) :
                                 ~(/\ received[k].type \in JobEventTypes
                                   /\ received[k].real = e.real
                                   /\ received[k].job = j))
                                => job_idx \notin DOMAIN partial.job_states

\* C29: of the events received for a job, the one with the latest time gives
\* the status to_dict() has for the job, whatever the order of arrival.
C29_LatestEventWins ==
    \A i \in 1..Len(received) :
       LET e == received[i]
       IN  (/\ e.type \in JobEventTypes
            /\ \A k \in 1..Len(received) :
                  (k # i /\ same_job(received[k], e)) => received[k].time < e.time)
              => at(to_dict(partial),
                    << "reals", e.real, "steps", e.step, "jobs", e.job, "status" >>)
                    = Leaf(FM_TYPE_EVENT_TO_STATUS(e.type))

(* ---- the file system rotator of the EnkfFsManager ---- *)
(* (src/res/enkf/enkf_fs_manager.py)                                       *)

\* the attributes of the rotator and the state of the disk
capacity == rotator.capacity      \* _capacity
fs_list == rotator.fs_list        \* _fs_list: full case names in the order of mounting
fs_map == rotator.fs_map          \* the keys of _fs_map
on_disk == rotator.on_disk        \* the full case names for which EnkfFs.exists holds
synced == rotator.synced          \* the sync() calls of the last getFileSystem call

\* the case names that getFileSystem is called with
CaseNames == {ToString(i) : i \in 0..(MaxCapacity + 1)}

\* EnkfFsManager.__init__: FileSystemRotator(capacity) with the cases on disk
RotatorConstructed(capacity_arg, existing) ==
    [capacity |-> capacity_arg, fs_list |-> << >>, fs_map |-> {},
     on_disk |-> existing, synced |-> << >>, last_case |-> "none"]

atCapacity(r) == Len(r.fs_list) = r.capacity

\* the oldest name leaves _fs_list, its file system is synced while _fs_map
\* still holds it, and then it leaves _fs_map
dropOldestFileSystem(r) ==
    IF Len(r.fs_list) > 0
    THEN LET case_name == r.fs_list[1]
         IN  [r EXCEPT !.fs_list = Tail(@),
                       !.synced = Append(@, [case |-> case_name,
                                             mounted |-> case_name \in r.fs_map]),
                       !.fs_map = @ \ {case_name}]
    ELSE r

\* addFileSystem without the test of the capacity
addFileSystem_unbounded(r, full_name) ==
    [r EXCEPT !.fs_list = Append(@, full_name),
              !.fs_map = @ \cup {full_name}]

addFileSystem(r, full_name) ==
    LET dropped == IF atCapacity(r) THEN dropOldestFileSystem(r) ELSE r
    IN  [dropped EXCEPT !.fs_list = Append(@, full_name),
                        !.fs_map = @ \cup {full_name}]

\* getFileSystem(case_name) on r: a case that is not mounted is created on
\* disk when it does not exist (after a drop at capacity) and then added
mounted_by(r, full_case_name) ==
    IF full_case_name \in { r.fs_list[i] : i \in 1..Len(r.fs_list) }
    THEN r
    ELSE LET created ==
                 IF full_case_name \notin r.on_disk
                 THEN [(IF atCapacity(r) THEN dropOldestFileSystem(r) ELSE r)
                          EXCEPT !.on_disk = @ \cup {full_case_name}]
                 ELSE r
         IN  addFileSystem(created, full_case_name)

InitRotate ==
    /\ QueueIdle
    /\ dispatcher = "none"
    /\ tracker = "none"
    /\ snap = "none"
    /\ runner = "none"
    /\ \E capacity_arg \in 0..MaxCapacity, existing \in SUBSET CaseNames :
          rotator = RotatorConstructed(capacity_arg, existing)

getFileSystem(case_name) ==
    /\ rotator' = mounted_by([rotator EXCEPT !.synced = << >>,
                                             !.last_case = case_name], case_name)
    /\ UNCHANGED << dispatcher, tracker, snap, runner, queuevars >>

NextRotate == \E case_name \in CaseNames : getFileSystem(case_name)

SpecRotate == InitRotate /\ [][NextRotate]_vars

\* C31: on a manager of capacity C >= 1 the number of mounted file systems
\* never exceeds C and stays C once it is C; a getFileSystem call that mounts
\* a case at capacity syncs and evicts exactly one file system, the one
\* mounted longest ago, and any other call evicts none
C31_RotateAtCapacity ==
    [][capacity >= 1 =>
         LET mounts == rotator'.last_case \notin { fs_list[i] : i \in 1..Len(fs_list) }
         IN  /\ Len(fs_list') <= capacity
             /\ Cardinality(fs_map') = Len(fs_list')
             /\ Len(fs_list) = capacity => Len(fs_list') = capacity
             /\ IF mounts /\ Len(fs_list) = capacity
                THEN /\ synced' = << [case |-> fs_list[1], mounted |-> TRUE] >>
                     /\ fs_list' = Append(Tail(fs_list), rotator'.last_case)
                     /\ fs_map' = (fs_map \ {fs_list[1]}) \cup {rotator'.last_case}
                ELSE /\ synced' = << >>
                     /\ \A i \in 1..Len(fs_list) : fs_list'[i] = fs_list[i]
                     /\ fs_map \subseteq fs_map']_vars

\* a full manager of capacity 2 has mounted a new case and synced the oldest
C31_Witness ==
    /\ capacity = 2
    /\ Len(fs_list) = 2
    /\ Len(synced) = 1
    /\ fs_list[2] = rotator.last_case
    /\ synced[1].case \notin fs_map

(* ---- the job runner (src/src/_ert_job_runner/runner.py) ---- *)
(* JobRunner.run is a generator: every action below is one resumption of  *)
(* it, up to its next yield.  Job.run is a generator of status updates     *)
(* that is not part of the sources at hand: a job yields one update or     *)
(* more, each successful or not, as the environment chooses.               *)

\* the attributes of the runner and of the generator of run()
jobs == runner.jobs                \* self.jobs, as the sequence of the jobs' names
job_queue == runner.job_queue      \* job_queue of run(): indices into self.jobs
messages == runner.messages        \* the messages run() has yielded, in order
rpc == runner.rpc                  \* position of the generator
pos == runner.pos                  \* position in job_queue of the job that is running
updates == runner.updates          \* number of updates the running job has yielded

\* names of the jobs of jobs_data["jobList"], and a name no job has
JobNames == {"a", "b"}
MISSING_JOB == "missing"

\* a message: Init, Finish (job 0) or the status update of a job; error is
\* set by with_error, and success() of an update is its negation
Message(type, job, error) == [type |-> type, job |-> job, error |-> error]

\* JobRunner.__init__ for a job list
RunnerConstructed(job_names) ==
    [jobs |-> job_names, job_queue |-> << >>, messages |-> << >>,
     rpc |-> "constructed", pos |-> 0, updates |-> 0, names |-> {}]

\* job_queue: all jobs for an empty names_of_jobs_to_run, otherwise the jobs
\* whose name is among the names, in the order of self.jobs
selected(job_names, names) ==
    SelectSeq([i \in 1..Len(job_names) |-> i],
              LAMBDA i : names = {} \/ job_names[i] \in names)

\* unused: the names that are not the name of a job of job_queue
unused(job_names, names) ==
    names \ { job_names[i] : i \in 1..Len(job_names) }

\* the generator is resumed after a yield and runs to its next yield or to
\* its end; more: the running job has another update; failed: the update
\* that is yielded next is not successful
next_yield_ignoring_failure(r, more, failed) ==
    IF r.rpc \in {"init_error", "finish"}
    THEN [r EXCEPT !.rpc = "returned"]
    ELSE IF r.pos >= 1 /\ more /\ r.updates < MaxUpdates
    THEN [r EXCEPT
            !.messages = Append(@, Message("Status", r.job_queue[r.pos], failed)),
            !.updates = @ + 1]
    ELSE IF r.pos < Len(r.job_queue)
    THEN [r EXCEPT
            !.messages = Append(@, Message("Status", r.job_queue[r.pos + 1], failed)),
            !.pos = @ + 1,
            !.updates = 1]
    ELSE [r EXCEPT !.messages = Append(@, Message("Finish", 0, FALSE)),
                   !.rpc = "finish"]
next_yield(r, more, failed) ==
    IF r.rpc \in {"init_error", "finish"}
    THEN [r EXCEPT !.rpc = "returned"]
    ELSE IF r.messages[Len(r.messages)].type = "Status"
              /\ r.messages[Len(r.messages)].error
    THEN [r EXCEPT !.messages = Append(@, Message("Finish", 0, TRUE)),
                   !.rpc = "finish"]
    ELSE IF r.pos >= 1 /\ more /\ r.updates < MaxUpdates
    THEN [r EXCEPT
            !.messages = Append(@, Message("Status", r.job_queue[r.pos], failed)),
            !.updates = @ + 1]
    ELSE IF r.pos < Len(r.job_queue)
    THEN [r EXCEPT
            !.messages = Append(@, Message("Status", r.job_queue[r.pos + 1], failed)),
            !.pos = @ + 1,
            !.updates = 1]
    ELSE [r EXCEPT !.messages = Append(@, Message("Finish", 0, FALSE)),
                   !.rpc = "finish"]

InitRunner ==
    /\ QueueIdle
    /\ dispatcher = "none"
    /\ tracker = "none"
    /\ snap = "none"
    /\ rotator = "none"
    /\ \E n \in 0..MaxRunnerJobs :
          \E job_names \in [1..n -> JobNames] : runner = RunnerConstructed(job_names)

\* run(names_of_jobs_to_run) up to its first yield: the Init message, with an
\* error when a name is unused
run ==
    \E names \in SUBSET (JobNames \cup {MISSING_JOB}) :
        /\ rpc = "constructed"
        /\ runner' = [runner EXCEPT
               !.names = names,
               !.job_queue = selected(jobs, names),
               !.messages = << Message("Init", 0, unused(jobs, names) # {}) >>,
               !.rpc = IF unused(jobs, names) # {} THEN "init_error" ELSE "yielded"]
        /\ UNCHANGED << dispatcher, tracker, snap, rotator, queuevars >>

\* the consumer asks for the next message
resume ==
    \E more \in BOOLEAN, failed \in BOOLEAN :
        /\ rpc \in {"init_error", "yielded", "finish"}
        /\ runner' = next_yield(runner, more, failed)
        /\ UNCHANGED << dispatcher, tracker, snap, rotator, queuevars >>

NextRunner ==
    \/ run
    \/ resume

SpecRunner == InitRunner /\ [][NextRunner]_vars

\* the jobs of the status updates among the messages, in order and without
\* the repetitions of a job that yields several updates in a row
RECURSIVE started_jobs(_)
started_jobs(msgs) ==
    IF msgs = << >> THEN << >>
    ELSE LET last == msgs[Len(msgs)]
             before == started_jobs(SubSeq(msgs, 1, Len(msgs) - 1))
         IN  IF /\ last.type = "Status"
                /\ (before = << >> \/ before[Len(before)] # last.job)
             THEN Append(before, last.job)
             ELSE before

\* the status updates among the messages that are not successful
failed_updates == { k \in 1..Len(messages) :
                      messages[k].type = "Status" /\ messages[k].error }

\* C39 as stated: run() yields Init first and runs the selected jobs in the
\* order of the list; an update that is not successful is followed by a
\* Finish with an error and by nothing else; and when every update is
\* successful, the last message of a run that has returned is a Finish
\* without an error.
C39_FinishLast ==
    /\ (messages # << >> => messages[1].type = "Init")
    /\ (rpc = "returned" /\ failed_updates = {}) =>
          /\ messages[Len(messages)] = Message("Finish", 0, FALSE)
          /\ started_jobs(messages) = job_queue

\* C39, amended: the above holds when every name of names_of_jobs_to_run is
\* the name of a job; with an unused name, run() yields the Init message with
\* an error and returns: no job is started and no Finish is yielded.
C39_FinishUnlessUnused ==
    /\ (rpc # "constructed" =>
          /\ messages[1] = Message("Init", 0, unused(jobs, runner.names) # {})
          /\ \A k \in 2..Len(messages) : messages[k].type # "Init")
    /\ (rpc # "constructed" /\ unused(jobs, runner.names) # {} =>
          Len(messages) = 1)
    /\ (rpc # "constructed" =>
          /\ job_queue = selected(jobs, runner.names)
          /\ Len(started_jobs(messages)) <= Len(job_queue)
          /\ started_jobs(messages)
                = SubSeq(job_queue, 1, Len(started_jobs(messages))))
    /\ \A k \in failed_updates :
          \/ k = Len(messages) /\ rpc = "yielded"
          \/ /\ k + 1 = Len(messages)
             /\ messages[k + 1] = Message("Finish", 0, TRUE)
    /\ \A k \in 1..Len(messages) :
          messages[k].type = "Finish" =>
              /\ k = Len(messages)
              /\ messages[k].error <=> (k - 1) \in failed_updates
    /\ (rpc = "returned" /\ unused(jobs, runner.names) = {} =>
          /\ messages[Len(messages)].type = "Finish"
          /\ (failed_updates = {} =>
                /\ messages[Len(messages)] = Message("Finish", 0, FALSE)
                /\ started_jobs(messages) = job_queue))

\* two jobs were selected, the first of them failed on its second update, Finish with an error followed and the run returned
C39_Witness ==
    /\ rpc = "returned"
    /\ Len(job_queue) = 2
    /\ Len(messages) = 4
    /\ ~messages[2].error
    /\ messages[3] = Message("Status", job_queue[1], TRUE)
    /\ messages[4] = Message("Finish", 0, TRUE)

====
